---- MODULE Spec2Model ----
(***************************************************************************)
(* State-machine model of the PulseChain block indexer:                    *)
(*   - BlockStorage / Database  (src/src/indexer/BlockFetcher.js 384-726,  *)
(*                               src/unnamed/part_001)                     *)
(*   - RpcClient                (src/unnamed/part_004)                     *)
(*   - BlockFetcher             (src/src/indexer/BlockFetcher.js 1-382)    *)
(*                                                                         *)
(* The specifications share the variables:                                 *)
(*   SpecStore : the storage writer driven call by call                    *)
(*   SpecRpc   : one RpcClient.getBlock call against a scripted endpoint   *)
(*   SpecBatch : one BlockFetcher.fetchAndSaveBatchWithRetry call          *)
(*   Spec      : the fetcher (initialize / start / backfill / tail / stop) *)
(***************************************************************************)
EXTENDS Integers, Sequences, FiniteSets, TLC

(***************************************************************************)
(* Bounds of the model                                                     *)
(***************************************************************************)
\* highest block number the storage specification writes
MaxNumber == 1
\* number of competing hashes per height (1 = canonical, others = forks)
NumVersions == 2
\* longest input of one saveBlocks call in SpecStore
MaxBatch == 2
\* largest configured RPC_RETRIES explored by SpecRpc
MaxRpcRetries == 3
\* highest chain height
MaxHead == 3
\* largest INDEXER_START_BLOCK
MaxStartBlock == 1
\* largest INDEXER_BATCH_SIZE
MaxBatchSize == 2
\* largest INDEXER_PARALLEL_BATCHES
MaxParallel == 2
\* largest RPC_RETRIES of the fetcher in Spec
MaxRetries == 1
\* largest RPC_RETRIES of the fetcher in SpecBatch
MaxBatchRetries == 3
\* longest list of heights passed to getBlocksParallel
MaxHeights == 3
\* largest `concurrency` passed to getBlocksParallel
MaxConcurrency == 2
\* number of RpcClient.connect calls explored by SpecConnect
MaxConnects == 2
\* number of signals and error events delivered to the process
MaxEvents == 3
\* number of start() calls explored by SpecLife
MaxStarts == 2

(***************************************************************************)
(* Program constants                                                       *)
(***************************************************************************)
\* RPC_RETRIES default
DefaultRetries == 3
\* base of the exponential backoff, in ms
BackoffUnitMs == 1000

VARIABLES
  \* ---- PostgreSQL `blocks` table and the connection pool
  store,        \* committed rows [number, hash]
  txnRows,      \* rows written by the open transaction, not yet committed
  held,         \* pool clients checked out and not yet released
  \* ---- one BlockStorage.saveBlocks call (SpecStore)
  sbPc,         \* "idle" | "connect" | "begin" | "loop" | "commit" | "rollback" | "done"
  sbBlocks,     \* the input batch
  sbIdx,        \* index of the next block to insert
  sbSaved,      \* savedCount
  sbErr,        \* the error caught by transaction()
  sbOutcome,    \* outcome of the last saveBlocks call
  sbBefore,     \* the table when the last saveBlocks call started
  sbLog,        \* the latest consecutive BlockStorage.saveBlock calls (at most 2)
  \* ---- one RpcClient.getBlock call (SpecRpc)
  rpcRetries,   \* config.retries
  gbScript,     \* the answers the endpoint will give, in order
  gbPc,         \* "idle" | "call" | "sleep" | "done"
  gbNumber,     \* requested height
  gbAttempt,    \* loop variable `attempt`
  gbAnswers,    \* answers received so far
  gbSleeps,     \* sleep(ms) calls so far
  gbLastError,  \* lastError
  gbOutcome,    \* outcome of the call
  \* ---- one RpcClient.getBlockRange call (SpecRange)
  rangeCall,    \* [pc, fromBlock, toBlock, blockNum, blocks, asked, answers, outcome]
  \* ---- one RpcClient.getBlocksParallel call (SpecParallel)
  parallelCall, \* [pc, blockNumbers, concurrency, i, blocks, asked, results, outcome]
  \* ---- the RpcClient object and its connect() call (SpecConnect)
  conn,         \* [pc, httpProvider, wsProvider, isConnected, ...]
  \* ---- the indexer process of src/indexer/index.js (SpecShutdown)
  proc,         \* [pc, isShuttingDown, events, ran, warnings, stopCalls, ...]
  \* ---- a start() call made after stop() (SpecRestart)
  laterStart,   \* "none" | "start_head" | "loop" | "failed"
  \* ---- BlockFetcher and its environment (Spec)
  config,       \* the configuration read from the environment at load time
  driver,       \* "main": src/indexer/index.js drives the fetcher;
                \* "sync": syncHistoricalBlocks is called directly;
                \* "batch": fetchAndSaveBatchWithRetry is called directly
  chainHead,    \* the height the endpoint answers to eth_blockNumber
  fpc,          \* where the caller of the fetcher stands
  currentBlock, \* this.currentBlock
  isRunning,    \* this.isRunning
  stopCalled,   \* stop() has been called
  syncBy,       \* caller of the running syncHistoricalBlocks
  syncPc,       \* "none" | "chunk" | "delay" | "done"
  batches,      \* const batches
  chunkAt,      \* loop variable i
  processedBatches,
  failedBatches,
  tasks,        \* the fetchAndSaveBatchWithRetry calls of the current chunk
  started,      \* the batches this syncHistoricalBlocks call has started, in order
  headAtStart,  \* the chain height start() read
  polled,       \* the tail loop has read the chain height at least once
  faulted,      \* an RPC or DB call failed, an endpoint answered null, or stop() ran
  coldStart,    \* initialize() found the table empty
  startCalls,   \* the number of start() calls made so far
  calm          \* the endpoint and the database have stopped failing and the
                \* chain height stays where it is

storeVars == <<store, txnRows, held>>
sbVars == <<sbPc, sbBlocks, sbIdx, sbSaved, sbErr, sbOutcome, sbBefore, sbLog>>
gbVars == <<rpcRetries, gbScript, gbPc, gbNumber, gbAttempt, gbAnswers, gbSleeps,
            gbLastError, gbOutcome, rangeCall, parallelCall, conn, proc,
            laterStart>>
bfVars == <<config, driver, chainHead, fpc, currentBlock, isRunning, stopCalled, syncBy,
            syncPc, batches, chunkAt, processedBatches, failedBatches, tasks, started,
            headAtStart, polled, faulted, coldStart, startCalls, calm>>
vars == <<storeVars, sbVars, gbVars, bfVars>>

\* null, where a string or a block is expected
Null == "null"
\* null, where a number is expected (block numbers and cursors are >= -1)
NoNumber == -2
\* no row
NoRow == [number |-> NoNumber, hash |-> 0]
NoOutcome == [kind |-> "none"]
Returned(v) == [kind |-> "returned", value |-> v]
Raised(e) == [kind |-> "raised", error |-> e]

\* no getBlockRange call has been made
RangeIdle ==
  [pc |-> "idle", fromBlock |-> 0, toBlock |-> 0, blockNum |-> 0, blocks |-> <<>>,
   asked |-> <<>>, answers |-> <<>>, outcome |-> NoOutcome]

\* no getBlocksParallel call has been made
ParallelIdle ==
  [pc |-> "idle", blockNumbers |-> <<>>, concurrency |-> 1, i |-> 0, blocks |-> <<>>,
   asked |-> <<>>, results |-> <<>>, outcome |-> NoOutcome]

\* the RpcClient as constructed: httpProvider = null, wsProvider = null (0 stands
\* for null, a positive number for the object made by the n-th constructor call),
\* isConnected = false; no websocket exists
ConnIdle ==
  [pc |-> "idle", httpProvider |-> 0, wsProvider |-> 0, isConnected |-> FALSE,
   sockets |-> {}, handlers |-> {}, erred |-> {}, made |-> 0,
   connects |-> 0, closes |-> 0, httpOk |-> FALSE, wsOk |-> FALSE, outcome |-> NoOutcome]

\* the process as loaded: isShuttingDown = false, no signal or error event has
\* been delivered, nothing has been stopped or closed, process.exit not called
ProcIdle ==
  [pc |-> "running", isShuttingDown |-> FALSE, events |-> <<>>, ran |-> <<>>,
   warnings |-> 0, stopCalls |-> 0, rpcCloses |-> 0, dbCloses |-> 0,
   exitCode |-> NoNumber]

\* Math.min
Min(a, b) == IF a < b THEN a ELSE b
\* Math.max
Max(a, b) == IF a > b THEN a ELSE b

RECURSIVE Pow2(_)
\* Math.pow(2, k)
Pow2(k) == IF k <= 0 THEN 1 ELSE 2 * Pow2(k - 1)

(***************************************************************************)
(* Blocks and rows.  An RPC block carries its hash as a "0x..." hex        *)
(* string, a table row carries it as raw bytes.                            *)
(***************************************************************************)
\* the bytes of the hash of fork v at height n
HashBytes(n, v) == n * NumVersions + v
\* the ethers.js block of fork v at height n; `valid` is FALSE when a
\* mandatory field is missing, so that transformBlock throws
RpcBlock(n, v, ok) == [number |-> n, hash |-> <<"0x", HashBytes(n, v)>>, valid |-> ok]

\* Buffer.from(hex.slice(2), 'hex')
HexToBytes(hex) == hex[2]
\* '0x' + buffer.toString('hex')
BytesToHex(bytes) == <<"0x", bytes>>

\* BlockStorage.transformBlock: the row of a block
transformBlock(block) == [number |-> block.number, hash |-> HexToBytes(block.hash)]

\* a variant whose conflict clause names no column: a row with the same
\* number is skipped as well
InsertOnConflictMutAnyConflict(rows, row) ==
  IF \E r \in rows : r.hash = row.hash \/ r.number = row.number
    THEN [status |-> "skipped", rowCount |-> 0]
    ELSE [status |-> "inserted", rowCount |-> 1]

\* INSERT INTO blocks ... ON CONFLICT (hash) DO NOTHING against the rows
\* visible to the statement: hash is the PRIMARY KEY, number is UNIQUE.
InsertOnConflict(rows, row) ==
  IF \E r \in rows : r.hash = row.hash
    THEN [status |-> "skipped", rowCount |-> 0]
    ELSE IF \E r \in rows : r.number = row.number
      THEN [status |-> "unique_violation", rowCount |-> 0]
      ELSE [status |-> "inserted", rowCount |-> 1]


(***************************************************************************)
(* BlockStorage and Database                                               *)
(***************************************************************************)
Numbers == 0..MaxNumber
Versions == 1..NumVersions
\* the blocks a caller may pass: every fork of every height, and per height one
\* block that transformBlock rejects (it throws before the hash is used)
Blocks ==
  {RpcBlock(n, v, TRUE) : n \in Numbers, v \in Versions}
    \cup {RpcBlock(n, 1, FALSE) : n \in Numbers}

\* the inputs of saveBlocks: what getBlockRange / getBlocksParallel hand over,
\* blocks of distinct heights in ascending order (heights may be missing)
IsAscending(seq) == \A i \in 1..(Len(seq) - 1) : seq[i].number < seq[i + 1].number
Batches == {seq \in UNION {[1..k -> Blocks] : k \in 0..MaxBatch} : IsAscending(seq)}

\* the record of the previous saveBlocks call is dropped when another
\* operation of the writer is called
ForgetSaveBlocks ==
  /\ sbPc' = "idle"
  /\ sbBlocks' = <<>>
  /\ sbIdx' = 1
  /\ sbSaved' = 0
  /\ sbErr' = Null
  /\ sbOutcome' = NoOutcome
  /\ sbBefore' = {}

\* BlockStorage.saveBlock: one INSERT ... ON CONFLICT (hash) DO NOTHING
\* RETURNING * through the pool; `fault` is a failing query (connection loss).
saveBlockMutNoConflictClause(block, fault) ==
  LET row == transformBlock(block)
      res == InsertOnConflict(store, row)
      before == store
      outcome == IF ~block.valid THEN Raised("transform")
                 ELSE IF fault THEN Raised("query")
                 ELSE IF res.status = "inserted" THEN Returned(TRUE)
                 ELSE Raised(res.status)
      after == IF outcome.kind = "returned" /\ res.status = "inserted"
                 THEN store \cup {row} ELSE store
      entry == [block |-> block, fault |-> fault, outcome |-> outcome,
                existed |-> \E r \in before : r.hash = row.hash,
                before |-> before, after |-> after]
  IN /\ sbPc \in {"idle", "done"}
     /\ store' = after
     /\ sbLog' = IF Len(sbLog) < 2 THEN Append(sbLog, entry) ELSE <<sbLog[2], entry>>
     /\ ForgetSaveBlocks
     /\ UNCHANGED <<txnRows, held, gbVars, bfVars>>

saveBlock(block, fault) ==
  LET row == transformBlock(block)
      res == InsertOnConflict(store, row)
      before == store
      \* transformBlock throws on a malformed block; db.insert rejects on a
      \* failing query or a unique violation; otherwise `return true`
      outcome == IF ~block.valid THEN Raised("transform")
                 ELSE IF fault THEN Raised("query")
                 ELSE IF res.status = "unique_violation" THEN Raised(res.status)
                 ELSE Returned(TRUE)
      after == IF outcome.kind = "returned" /\ res.status = "inserted"
                 THEN store \cup {row} ELSE store
      entry == [block |-> block, fault |-> fault, outcome |-> outcome,
                existed |-> \E r \in before : r.hash = row.hash,
                before |-> before, after |-> after]
  IN /\ sbPc \in {"idle", "done"}
     /\ store' = after
     /\ sbLog' = IF Len(sbLog) < 2 THEN Append(sbLog, entry) ELSE <<sbLog[2], entry>>
     /\ ForgetSaveBlocks
     /\ UNCHANGED <<txnRows, held, gbVars, bfVars>>

\* BlockStorage.deleteBlocksFrom: DELETE FROM blocks WHERE number >= $1
RowsBelowMutOnlyThat(rows, n) == {r \in rows : r.number # n}

\* the rows deleteBlocksFrom(n) leaves
RowsBelow(rows, n) == {r \in rows : r.number < n}

deleteBlocksFrom(n) ==
  /\ sbPc \in {"idle", "done"}
  /\ store' = RowsBelow(store, n)
  /\ sbLog' = <<>>
  /\ ForgetSaveBlocks
  /\ UNCHANGED <<txnRows, held, gbVars, bfVars>>

\* BlockStorage.saveBlocks, entry: an empty input returns 0 at once, otherwise
\* db.transaction is entered
saveBlocksCall(blocks) ==
  /\ sbPc \in {"idle", "done"}
  /\ sbBlocks' = blocks
  /\ sbBefore' = store
  /\ sbIdx' = 1
  /\ sbSaved' = 0
  /\ sbErr' = Null
  /\ sbLog' = <<>>
  /\ IF Len(blocks) = 0
       THEN sbPc' = "done" /\ sbOutcome' = Returned(0)
       ELSE sbPc' = "connect" /\ sbOutcome' = NoOutcome
  /\ UNCHANGED <<storeVars, gbVars, bfVars>>

\* Database.transaction: const client = await this.getClient()   (outside the try)
transactionGetClient(ok) ==
  /\ sbPc = "connect"
  /\ IF ok
       THEN held' = held + 1 /\ sbPc' = "begin" /\ UNCHANGED sbOutcome
       ELSE held' = held /\ sbPc' = "done" /\ sbOutcome' = Raised("connect")
  /\ UNCHANGED <<store, txnRows, sbBlocks, sbIdx, sbSaved, sbErr, sbBefore, sbLog, gbVars, bfVars>>

\* Database.transaction: await client.query('BEGIN')
transactionBegin(ok) ==
  /\ sbPc = "begin"
  /\ txnRows' = {}
  /\ IF ok
       THEN sbPc' = "loop" /\ UNCHANGED sbErr
       ELSE sbPc' = "rollback" /\ sbErr' = "begin"
  /\ UNCHANGED <<store, held, sbBlocks, sbIdx, sbSaved, sbOutcome, sbBefore, sbLog, gbVars, bfVars>>

\* the callback of saveBlocks, one iteration: transformBlock, then
\* client.query(INSERT ... ON CONFLICT (hash) DO NOTHING) inside the transaction
saveBlocksInsertMutAutocommit(fault) ==
  LET block == sbBlocks[sbIdx]
      row == transformBlock(block)
      res == InsertOnConflict(store \cup txnRows, row)
  IN /\ sbPc = "loop"
     /\ IF ~block.valid
          THEN sbPc' = "rollback" /\ sbErr' = "transform"
               /\ UNCHANGED <<store, txnRows, sbIdx, sbSaved>>
          ELSE IF fault
            THEN sbPc' = "rollback" /\ sbErr' = "query"
                 /\ UNCHANGED <<store, txnRows, sbIdx, sbSaved>>
            ELSE IF res.status = "unique_violation"
              THEN sbPc' = "rollback" /\ sbErr' = "unique_violation"
                   /\ UNCHANGED <<store, txnRows, sbIdx, sbSaved>>
              ELSE /\ store' = IF res.status = "inserted" THEN store \cup {row} ELSE store
                   /\ UNCHANGED txnRows
                   /\ sbSaved' = sbSaved + res.rowCount
                   /\ sbIdx' = sbIdx + 1
                   /\ sbPc' = IF sbIdx = Len(sbBlocks) THEN "commit" ELSE "loop"
                   /\ UNCHANGED sbErr
     /\ UNCHANGED <<held, sbBlocks, sbOutcome, sbBefore, sbLog, gbVars, bfVars>>

saveBlocksInsert(fault) ==
  LET block == sbBlocks[sbIdx]
      row == transformBlock(block)
      res == InsertOnConflict(store \cup txnRows, row)
  IN /\ sbPc = "loop"
     /\ IF ~block.valid
          THEN sbPc' = "rollback" /\ sbErr' = "transform"
               /\ UNCHANGED <<txnRows, sbIdx, sbSaved>>
          ELSE IF fault
            THEN sbPc' = "rollback" /\ sbErr' = "query"
                 /\ UNCHANGED <<txnRows, sbIdx, sbSaved>>
            ELSE IF res.status = "unique_violation"
              THEN sbPc' = "rollback" /\ sbErr' = "unique_violation"
                   /\ UNCHANGED <<txnRows, sbIdx, sbSaved>>
              ELSE /\ txnRows' = IF res.status = "inserted" THEN txnRows \cup {row}
                                 ELSE txnRows
                   /\ sbSaved' = sbSaved + res.rowCount
                   /\ sbIdx' = sbIdx + 1
                   /\ sbPc' = IF sbIdx = Len(sbBlocks) THEN "commit" ELSE "loop"
                   /\ UNCHANGED sbErr
     /\ UNCHANGED <<store, held, sbBlocks, sbOutcome, sbBefore, sbLog, gbVars, bfVars>>

\* Database.transaction: await client.query('COMMIT'); return result; finally
\* client.release().  A failing COMMIT leaves the transaction uncommitted.
transactionCommit(ok) ==
  /\ sbPc = "commit"
  /\ IF ok
       THEN /\ store' = store \cup txnRows
            /\ txnRows' = {}
            /\ held' = held - 1
            /\ sbPc' = "done"
            /\ sbOutcome' = Returned(sbSaved)
            /\ UNCHANGED sbErr
       ELSE /\ sbPc' = "rollback"
            /\ sbErr' = "commit"
            /\ UNCHANGED <<store, txnRows, held, sbOutcome>>
  /\ UNCHANGED <<sbBlocks, sbIdx, sbSaved, sbBefore, sbLog, gbVars, bfVars>>

\* Database.transaction: finally { client.release() } after the catch block,
\* whether `await client.query('ROLLBACK')` was answered or threw
releasedAfterRollbackMutInCatch(clients, ok) == IF ok THEN clients - 1 ELSE clients

releasedAfterRollback(clients, ok) == clients - 1

\* Database.transaction: catch { await client.query('ROLLBACK'); throw error }
\* finally { client.release() }.  The uncommitted rows are discarded whether the
\* ROLLBACK statement is answered or the connection is lost with it; a
\* failing ROLLBACK replaces the error that is thrown.
transactionRollback(ok) ==
  /\ sbPc = "rollback"
  /\ txnRows' = {}
  /\ held' = releasedAfterRollback(held, ok)
  /\ sbPc' = "done"
  /\ sbOutcome' = IF ok THEN Raised(sbErr) ELSE Raised("rollback")
  /\ UNCHANGED <<store, sbBlocks, sbIdx, sbSaved, sbErr, sbBefore, sbLog, gbVars, bfVars>>

GetBlockIdle ==
  /\ rpcRetries = DefaultRetries
  /\ gbScript = <<>>
  /\ gbPc = "idle"
  /\ gbNumber = 0
  /\ gbAttempt = 0
  /\ gbAnswers = <<>>
  /\ gbSleeps = <<>>
  /\ gbLastError = Null
  /\ gbOutcome = NoOutcome
  /\ rangeCall = RangeIdle
  /\ parallelCall = ParallelIdle
  /\ conn = ConnIdle
  /\ proc = ProcIdle
  /\ laterStart = "none"

\* the fetcher as constructed, with the default configuration
DefaultConfig ==
  [startBlock |-> 0, batchSize |-> 1, parallelBatches |-> 1, blockDelay |-> 0,
   enableReorgCheck |-> TRUE, maxRetries |-> DefaultRetries]

FetcherIdle ==
  /\ config = DefaultConfig
  /\ driver = "none"
  /\ chainHead = 0
  /\ fpc = "new"
  /\ currentBlock = NoNumber
  /\ isRunning = FALSE
  /\ stopCalled = FALSE
  /\ syncBy = "none"
  /\ syncPc = "none"
  /\ batches = <<>>
  /\ chunkAt = 0
  /\ processedBatches = 0
  /\ failedBatches = <<>>
  /\ tasks = <<>>
  /\ started = <<>>
  /\ headAtStart = NoNumber
  /\ polled = FALSE
  /\ faulted = FALSE
  /\ coldStart = FALSE
  /\ startCalls = 0
  /\ calm = FALSE

SaveBlocksIdle ==
  /\ txnRows = {}
  /\ held = 0
  /\ sbPc = "idle"
  /\ sbBlocks = <<>>
  /\ sbIdx = 1
  /\ sbSaved = 0
  /\ sbErr = Null
  /\ sbOutcome = NoOutcome
  /\ sbBefore = {}
  /\ sbLog = <<>>

\* the table as scripts/setup-db.js creates it: empty
InitStore ==
  /\ store = {}
  /\ SaveBlocksIdle
  /\ GetBlockIdle
  /\ FetcherIdle

NextStore ==
  \/ \E b \in Blocks, fault \in BOOLEAN : saveBlock(b, fault)
  \/ \E n \in Numbers : deleteBlocksFrom(n)
  \/ \E blocks \in Batches : saveBlocksCall(blocks)
  \/ \E ok \in BOOLEAN : transactionGetClient(ok)
  \/ \E ok \in BOOLEAN : transactionBegin(ok)
  \/ \E fault \in BOOLEAN : saveBlocksInsert(fault)
  \/ \E ok \in BOOLEAN : transactionCommit(ok)
  \/ \E ok \in BOOLEAN : transactionRollback(ok)

SpecStore == InitStore /\ [][NextStore]_vars


(***************************************************************************)
(* Claims about the storage writer (SpecStore)                             *)
(***************************************************************************)

\* C1  Batch atomicity: when saveBlocks has raised - a failing transform,
\* insert, BEGIN or COMMIT at any position of the batch - the table equals the
\* table at the start of the call and no row of the transaction is left.
C1_BatchAtomicity ==
  sbOutcome.kind = "raised" => (store = sbBefore /\ txnRows = {})

\* a call that raised after at least one of its rows had been inserted
C1_Witness ==
  /\ sbOutcome.kind = "raised"
  /\ sbSaved >= 1
  /\ sbErr \in {"query", "unique_violation", "transform", "commit"}

\* two consecutive saveBlock calls with the same well-formed block and no
\* failing query
SameBlockTwice ==
  /\ Len(sbLog) = 2
  /\ sbLog[1].block = sbLog[2].block
  /\ sbLog[1].block.valid
  /\ ~sbLog[1].fault
  /\ ~sbLog[2].fault

\* C2 as stated: for every table state, the second saveBlock(b) does not
\* raise and leaves the rows of the first.
C2_IdempotentAnyStore ==
  SameBlockTwice =>
    (sbLog[2].outcome.kind = "returned" /\ sbLog[2].after = sbLog[1].after)

\* C2 amended: when the first saveBlock(b) returned (no row holds b.number
\* under another hash), the second saveBlock(b) does not raise and leaves the
\* rows of the first.
C2_IdempotentAfterSuccess ==
  (SameBlockTwice /\ sbLog[1].outcome.kind = "returned") =>
    (sbLog[2].outcome.kind = "returned" /\ sbLog[2].after = sbLog[1].after)

\* the first call inserted the row, the second met it
C2_Witness ==
  /\ SameBlockTwice
  /\ ~sbLog[1].existed
  /\ sbLog[1].outcome.kind = "returned"
  /\ sbLog[2].existed
  /\ sbLog[2].outcome.kind = "returned"

\* C3  saveBlock returns whether a new row was inserted: TRUE when no row with
\* the hash was stored before the call, FALSE when one was.
C3_ReturnsWhetherInserted ==
  \A i \in 1..Len(sbLog) :
    sbLog[i].outcome.kind = "returned" => (sbLog[i].outcome.value = ~sbLog[i].existed)

(***************************************************************************)
(* RpcClient.getBlock                                                      *)
(***************************************************************************)
\* what httpProvider.getBlock can answer: a block, null ("no such block"),
\* or a rejection with a transport error
RpcErrors == {"Network error", "Timeout"}
Answers == {"block", Null} \cup RpcErrors
ScriptLen == MaxRpcRetries + 1

\* for (let attempt = 0; attempt < maxRetries; attempt++)
getBlockLoopGuardMutInclusive(attempt, maxRetries) == attempt <= maxRetries

getBlockLoopGuard(attempt, maxRetries) == attempt < maxRetries

\* if (attempt < maxRetries - 1)
getBlockSleepsAfter(attempt, maxRetries) == attempt < maxRetries - 1

\* const delay = Math.pow(2, attempt) * 1000
getBlockDelayMutShifted(attempt) == Pow2(attempt + 1) * BackoffUnitMs

getBlockDelay(attempt) == Pow2(attempt) * BackoffUnitMs

\* the statements after the loop: lastError.message is read for the log, then
\* lastError is thrown; with no attempt made lastError is still null
getBlockGiveUp(lastError) ==
  IF lastError = Null THEN Raised("TypeError") ELSE Raised(lastError)

\* if (!block)
getBlockNotFoundMutRetried(ans) == FALSE

getBlockNotFound(ans) == ans = Null

\* RpcClient.getBlock, entry up to the first await
getBlockCall(n) ==
  /\ gbPc = "idle"
  /\ gbNumber' = n
  /\ gbAttempt' = 0
  /\ gbAnswers' = <<>>
  /\ gbSleeps' = <<>>
  /\ gbLastError' = Null
  /\ IF getBlockLoopGuard(0, rpcRetries)
       THEN gbPc' = "call" /\ gbOutcome' = NoOutcome
       ELSE gbPc' = "done" /\ gbOutcome' = getBlockGiveUp(Null)
  /\ UNCHANGED <<rpcRetries, gbScript, rangeCall, parallelCall, conn, proc, laterStart, storeVars, sbVars, bfVars>>

\* the provider settles `await this.httpProvider.getBlock(...)`
getBlockAnswer ==
  LET ans == gbScript[Len(gbAnswers) + 1] IN
  /\ gbPc = "call"
  /\ gbAnswers' = Append(gbAnswers, ans)
  /\ IF getBlockNotFound(ans)
       THEN /\ gbPc' = "done"
            /\ gbOutcome' = Returned(Null)
            /\ UNCHANGED <<gbAttempt, gbSleeps, gbLastError>>
       ELSE IF ans = "block"
         THEN /\ gbPc' = "done"
              /\ gbOutcome' = Returned(RpcBlock(gbNumber, 1, TRUE))
              /\ UNCHANGED <<gbAttempt, gbSleeps, gbLastError>>
         ELSE /\ gbLastError' = ans
              /\ IF getBlockSleepsAfter(gbAttempt, rpcRetries)
                   THEN /\ gbSleeps' = Append(gbSleeps, getBlockDelay(gbAttempt))
                        /\ gbPc' = "sleep"
                        /\ UNCHANGED <<gbAttempt, gbOutcome>>
                   ELSE /\ gbAttempt' = gbAttempt + 1
                        /\ UNCHANGED gbSleeps
                        /\ IF getBlockLoopGuard(gbAttempt + 1, rpcRetries)
                             THEN gbPc' = "call" /\ UNCHANGED gbOutcome
                             ELSE gbPc' = "done" /\ gbOutcome' = getBlockGiveUp(ans)
  /\ UNCHANGED <<rpcRetries, gbScript, gbNumber, rangeCall, parallelCall, conn, proc, laterStart, storeVars, sbVars, bfVars>>

\* `await this.sleep(delay)` is over: attempt++ and the loop condition
getBlockWake ==
  /\ gbPc = "sleep"
  /\ gbAttempt' = gbAttempt + 1
  /\ IF getBlockLoopGuard(gbAttempt + 1, rpcRetries)
       THEN gbPc' = "call" /\ UNCHANGED gbOutcome
       ELSE gbPc' = "done" /\ gbOutcome' = getBlockGiveUp(gbLastError)
  /\ UNCHANGED <<rpcRetries, gbScript, gbNumber, gbAnswers, gbSleeps, gbLastError,
                 rangeCall, parallelCall, conn, proc, laterStart, storeVars, sbVars, bfVars>>

InitRpc ==
  /\ store = {}
  /\ SaveBlocksIdle
  /\ FetcherIdle
  /\ rpcRetries \in 0..MaxRpcRetries
  /\ gbScript \in [1..ScriptLen -> Answers]
  /\ gbPc = "idle"
  /\ gbNumber = 0
  /\ gbAttempt = 0
  /\ gbAnswers = <<>>
  /\ gbSleeps = <<>>
  /\ gbLastError = Null
  /\ gbOutcome = NoOutcome
  /\ rangeCall = RangeIdle
  /\ parallelCall = ParallelIdle
  /\ conn = ConnIdle
  /\ proc = ProcIdle
  /\ laterStart = "none"

NextRpc ==
  \/ \E n \in Numbers : getBlockCall(n)
  \/ getBlockAnswer
  \/ getBlockWake

SpecRpc == InitRpc /\ [][NextRpc]_vars

(***************************************************************************)
(* Claims about getBlock (SpecRpc)                                         *)
(***************************************************************************)
\* the first k answers of the endpoint are transport errors
FirstAreErrors(k) == \A i \in 1..k : gbScript[i] \in RpcErrors
\* the sleeps 1000, 2000, ... between k consecutive calls
BackoffBetween(k) == [i \in 1..(k - 1) |-> Pow2(i - 1) * BackoffUnitMs]

\* C9  getBlock retry policy (R >= 1 configured attempts): when every call
\* fails, exactly R calls are made with sleeps 1000, 2000, ..., 2^(R-2)*1000
\* between them and the error of the final call is raised; when the j-th call
\* (j <= R) is the first to succeed, that block is returned after exactly j
\* calls.
C9_GetBlockRetryPolicy ==
  (gbPc = "done" /\ rpcRetries >= 1) =>
    /\ FirstAreErrors(rpcRetries) =>
         /\ Len(gbAnswers) = rpcRetries
         /\ gbSleeps = BackoffBetween(rpcRetries)
         /\ gbOutcome = Raised(gbScript[rpcRetries])
    /\ \A j \in 1..rpcRetries :
         (FirstAreErrors(j - 1) /\ gbScript[j] = "block") =>
           /\ Len(gbAnswers) = j
           /\ gbSleeps = BackoffBetween(j)
           /\ gbOutcome = Returned(RpcBlock(gbNumber, 1, TRUE))

\* three attempts, all failed, two sleeps
C9_Witness ==
  /\ gbPc = "done"
  /\ rpcRetries = 3
  /\ FirstAreErrors(3)
  /\ gbSleeps = <<1000, 2000>>
  /\ gbOutcome.kind = "raised"

\* the endpoint answers three transient errors and then a block, under the
\* default configuration
ThreeErrorsThenBlock ==
  /\ rpcRetries = DefaultRetries
  /\ FirstAreErrors(3)
  /\ gbScript[4] = "block"

\* C10 as stated: four calls, sleeps of 1 s, 2 s and 4 s, and the block is
\* returned.
C10_FourCallsThenBlock ==
  (gbPc = "done" /\ ThreeErrorsThenBlock) =>
    /\ Len(gbAnswers) = 4
    /\ gbSleeps = <<1000, 2000, 4000>>
    /\ gbOutcome = Returned(RpcBlock(gbNumber, 1, TRUE))

\* C10 amended: three calls, sleeps of 1 s and 2 s, and the third error is
\* raised; the fourth answer is never asked for.
C10_ThreeCallsThenRaise ==
  (gbPc = "done" /\ ThreeErrorsThenBlock) =>
    /\ Len(gbAnswers) = 3
    /\ gbSleeps = <<1000, 2000>>
    /\ gbOutcome = Raised(gbScript[3])

C10_Witness ==
  /\ gbPc = "done"
  /\ ThreeErrorsThenBlock
  /\ Len(gbAnswers) = 3

\* C11  "No such block" is a value: a null answer of the endpoint is the last
\* answer getBlock asks for; the call is over, it returned null (it did not
\* raise), and every sleep it made came before that answer.
C11_NullIsReturnedAtOnce ==
  \A i \in 1..Len(gbAnswers) :
    gbAnswers[i] = Null =>
      /\ i = Len(gbAnswers)
      /\ gbPc = "done"
      /\ gbOutcome = Returned(Null)
      /\ Len(gbSleeps) = i - 1

\* C11 witness: a transport error, one sleep, then a null answer to the second
\* call although a third attempt was left
C11_Witness ==
  /\ rpcRetries = 3
  /\ Len(gbAnswers) = 2
  /\ gbAnswers[1] \in RpcErrors
  /\ gbAnswers[2] = Null
  /\ gbSleeps = <<1000>>
  /\ gbOutcome = Returned(Null)


(***************************************************************************)
(* RpcClient.getBlockRange                                                 *)
(***************************************************************************)
\* what `await this.getBlock(blockNum, true)` can settle with: a block, null,
\* the transport error of the last attempt, or the TypeError of getBlockGiveUp
GetBlockErrors == RpcErrors \cup {"TypeError"}
GetBlockResults == {"block", Null} \cup GetBlockErrors

\* catch (error) { ...; throw error; }
getBlockRangeRethrowsMutSwallowed(ans) == FALSE

getBlockRangeRethrows(ans) == ans \in GetBlockErrors

\* for (let blockNum = fromBlock; blockNum <= toBlock; blockNum++) at blockNum:
\* either getBlock(blockNum) is called, or the loop is over and the list is
\* returned
getBlockRangeLoop(call, blockNum, blocks) ==
  IF blockNum <= call.toBlock
    THEN [call EXCEPT !.pc = "call", !.blockNum = blockNum, !.blocks = blocks,
                      !.asked = Append(call.asked, blockNum)]
    ELSE [call EXCEPT !.pc = "done", !.blockNum = blockNum, !.blocks = blocks,
                      !.outcome = Returned(blocks)]

\* RpcClient.getBlockRange(fromBlock, toBlock) up to its first await
getBlockRangeCall(fromBlock, toBlock) ==
  /\ rangeCall.pc = "idle"
  /\ rangeCall' = getBlockRangeLoop(
       [RangeIdle EXCEPT !.fromBlock = fromBlock, !.toBlock = toBlock], fromBlock, <<>>)
  /\ UNCHANGED <<rpcRetries, gbScript, gbPc, gbNumber, gbAttempt, gbAnswers, gbSleeps,
                 gbLastError, gbOutcome, parallelCall, conn, proc, laterStart, storeVars, sbVars, bfVars>>

\* `await this.getBlock(blockNum, true)` settles with `ans`
getBlockRangeSettled(ans) ==
  LET call == [rangeCall EXCEPT !.answers = Append(rangeCall.answers, ans)] IN
  /\ rangeCall.pc = "call"
  /\ rangeCall' =
       IF getBlockRangeRethrows(ans)
         THEN [call EXCEPT !.pc = "done", !.outcome = Raised(ans)]
         ELSE getBlockRangeLoop(call, call.blockNum + 1,
                IF ans = "block"
                  THEN Append(call.blocks, RpcBlock(call.blockNum, 1, TRUE))
                  ELSE call.blocks)
  /\ UNCHANGED <<rpcRetries, gbScript, gbPc, gbNumber, gbAttempt, gbAnswers, gbSleeps,
                 gbLastError, gbOutcome, parallelCall, conn, proc, laterStart, storeVars, sbVars, bfVars>>

InitRange ==
  /\ store = {}
  /\ SaveBlocksIdle
  /\ FetcherIdle
  /\ GetBlockIdle

NextRange ==
  \/ \E fromBlock \in 0..MaxHead, toBlock \in 0..MaxHead :
       getBlockRangeCall(fromBlock, toBlock)
  \/ \E ans \in GetBlockResults : getBlockRangeSettled(ans)

SpecRange == InitRange /\ [][NextRange]_vars

(***************************************************************************)
(* Claims about getBlockRange (SpecRange)                                  *)
(***************************************************************************)
\* the heights a, a + 1, ..., a + k - 1
Consecutive(a, k) == [i \in 1..k |-> a + i - 1]

\* C12 (as stated): a getBlockRange(from, to) that returns, returns exactly
\* to - from + 1 blocks, of the heights from, from + 1, ..., to in this order;
\* a height for which the endpoint reports no block makes the call fail.
C12_AllHeightsOrFailure ==
  (rangeCall.pc = "done" /\ rangeCall.fromBlock <= rangeCall.toBlock)
  => /\ rangeCall.outcome.kind = "returned" =>
          /\ Len(rangeCall.outcome.value) = rangeCall.toBlock - rangeCall.fromBlock + 1
          /\ \A i \in 1..Len(rangeCall.outcome.value) :
               rangeCall.outcome.value[i].number = rangeCall.fromBlock + i - 1
     /\ (\E i \in 1..Len(rangeCall.answers) : rangeCall.answers[i] = Null) =>
          rangeCall.outcome.kind = "raised"

\* the getBlock calls of the range that have not settled
RangeInFlight == Len(rangeCall.asked) - Len(rangeCall.answers)

\* C13: getBlockRange asks for the heights from, from + 1, ... one after the
\* other, with at most one getBlock in flight; the first getBlock that raises
\* ends the call, which raises that very error: no later height is asked for
\* and no list is returned.
C13_SequentialFirstErrorSurfaces ==
  /\ rangeCall.asked = Consecutive(rangeCall.fromBlock, Len(rangeCall.asked))
  /\ RangeInFlight \in {0, 1}
  /\ \A i \in 1..Len(rangeCall.answers) :
       rangeCall.answers[i] \in GetBlockErrors =>
         /\ i = Len(rangeCall.answers)
         /\ Len(rangeCall.asked) = i
         /\ rangeCall.pc = "done"
         /\ rangeCall.outcome = Raised(rangeCall.answers[i])

\* C13 witness: a range of three heights; the first height answered a block,
\* the second raised, the third was never asked for
C13_Witness ==
  /\ rangeCall.toBlock = rangeCall.fromBlock + 2
  /\ rangeCall.asked = <<rangeCall.fromBlock, rangeCall.fromBlock + 1>>
  /\ rangeCall.answers[1] = "block"
  /\ rangeCall.outcome = Raised("Timeout")

(***************************************************************************)
(* RpcClient.getBlocksParallel                                             *)
(***************************************************************************)
\* a call in flight
Pending == "pending"

\* the lists of heights a caller passes: distinct heights in any order
HeightLists ==
  {seq \in UNION {[1..k -> 0..(MaxHeights - 1)] : k \in 0..MaxHeights} :
     \A a, b \in 1..Len(seq) : a # b => seq[a] # seq[b]}

\* blockNumbers.slice(i, i + concurrency)
ParallelChunkMutOneMore(blockNumbers, i, concurrency) ==
  SubSeq(blockNumbers, i + 1, Min(i + concurrency + 1, Len(blockNumbers)))

ParallelChunk(blockNumbers, i, concurrency) ==
  SubSeq(blockNumbers, i + 1, Min(i + concurrency, Len(blockNumbers)))

\* catch (error) { ...; throw error; } around await Promise.all
getBlocksParallelRethrowsMutSwallowed(ans) == FALSE

getBlocksParallelRethrows(ans) == ans \in GetBlockErrors

RECURSIVE ValidBlocks(_, _, _)
\* chunkBlocks.filter(block => block !== null), chunkBlocks being the results
\* lo..hi of the calls in the order of the input
ValidBlocks(call, lo, hi) ==
  IF lo > hi THEN <<>>
  ELSE (IF call.results[lo] = "block"
          THEN <<RpcBlock(call.asked[lo], 1, TRUE)>>
          ELSE <<>>)
       \o ValidBlocks(call, lo + 1, hi)

\* for (let i = 0; i < blockNumbers.length; i += concurrency) at index i: either
\* the getBlock calls of the next chunk are made (Promise.all(chunk.map(...))), or
\* the loop is over and the list is returned
getBlocksParallelLoop(call, i, blocks) ==
  LET chunk == ParallelChunk(call.blockNumbers, i, call.concurrency) IN
  IF i < Len(call.blockNumbers)
    THEN [call EXCEPT !.pc = "chunk", !.i = i, !.blocks = blocks,
                      !.asked = call.asked \o chunk,
                      !.results = call.results \o [k \in 1..Len(chunk) |-> Pending]]
    ELSE [call EXCEPT !.pc = "done", !.i = i, !.blocks = blocks,
                      !.outcome = Returned(blocks)]

\* RpcClient.getBlocksParallel(blockNumbers, concurrency) up to its first await
getBlocksParallelCall(blockNumbers, concurrency) ==
  /\ parallelCall.pc = "idle"
  /\ parallelCall' = getBlocksParallelLoop(
       [ParallelIdle EXCEPT !.blockNumbers = blockNumbers, !.concurrency = concurrency],
       0, <<>>)
  /\ UNCHANGED <<rpcRetries, gbScript, gbPc, gbNumber, gbAttempt, gbAnswers, gbSleeps,
                 gbLastError, gbOutcome, rangeCall, conn, proc, laterStart, storeVars, sbVars, bfVars>>

\* the getBlock call at position k settles with `ans`.  Promise.all rejects
\* with the first rejection (the catch rethrows it) and fulfils when the last
\* call of the chunk has answered; the calls still in flight when it rejected
\* settle later, unobserved.
getBlocksParallelSettled(k, ans) ==
  LET call == [parallelCall EXCEPT !.results[k] = ans]
      allAnswered == \A j \in 1..Len(call.results) : call.results[j] # Pending
  IN /\ parallelCall.pc \in {"chunk", "done"}
     /\ k \in 1..Len(parallelCall.results)
     /\ parallelCall.results[k] = Pending
     /\ parallelCall' =
          IF parallelCall.pc = "done" THEN call
          ELSE IF getBlocksParallelRethrows(ans)
            THEN [call EXCEPT !.pc = "done", !.outcome = Raised(ans)]
            ELSE IF allAnswered
              THEN getBlocksParallelLoop(call, call.i + call.concurrency,
                     call.blocks \o ValidBlocks(call, call.i + 1, Len(call.results)))
              ELSE call
     /\ UNCHANGED <<rpcRetries, gbScript, gbPc, gbNumber, gbAttempt, gbAnswers, gbSleeps,
                    gbLastError, gbOutcome, rangeCall, conn, proc, laterStart, storeVars, sbVars, bfVars>>

InitParallel ==
  /\ store = {}
  /\ SaveBlocksIdle
  /\ FetcherIdle
  /\ GetBlockIdle

NextParallel ==
  \/ \E blockNumbers \in HeightLists, concurrency \in 1..MaxConcurrency :
       getBlocksParallelCall(blockNumbers, concurrency)
  \/ \E k \in 1..MaxHeights, ans \in GetBlockResults : getBlocksParallelSettled(k, ans)

SpecParallel == InitParallel /\ [][NextParallel]_vars

(***************************************************************************)
(* Claims about getBlocksParallel (SpecParallel)                           *)
(***************************************************************************)
\* the getBlock calls that have been made and have not settled
ParallelInFlight ==
  {k \in 1..Len(parallelCall.results) : parallelCall.results[k] = Pending}

\* C14: getBlocksParallel(heights, c) never has more than c getBlock calls in
\* flight, asks for the heights of the input in their order and never twice,
\* and has asked for every one of them when it returns.
C14_ParallelBound ==
  /\ Cardinality(ParallelInFlight) <= parallelCall.concurrency
  /\ parallelCall.asked =
       SubSeq(parallelCall.blockNumbers, 1, Len(parallelCall.asked))
  /\ parallelCall.outcome.kind = "returned" =>
       parallelCall.asked = parallelCall.blockNumbers

\* C14 witness: three heights with c = 2; two calls are in flight, the third
\* height has not been asked for yet
C14_Witness ==
  /\ Len(parallelCall.blockNumbers) = 3
  /\ parallelCall.concurrency = 2
  /\ Cardinality(ParallelInFlight) = 2
  /\ Len(parallelCall.asked) = 2

RECURSIVE AnsweredBlocks(_, _, _)
\* the blocks of the heights of the list that answered a block, in list order
AnsweredBlocks(blockNumbers, results, k) ==
  IF k > Len(blockNumbers) THEN <<>>
  ELSE (IF results[k] = "block" THEN <<RpcBlock(blockNumbers[k], 1, TRUE)>> ELSE <<>>)
       \o AnsweredBlocks(blockNumbers, results, k + 1)

\* C15: a getBlocksParallel that returns, returns exactly the blocks of the
\* heights that did not answer null, in the order of the input and without a
\* null among them; as soon as a getBlock has raised, the call has raised (it
\* returns no list).
C15_ParallelResult ==
  /\ parallelCall.outcome.kind = "returned" =>
       /\ parallelCall.outcome.value =
            AnsweredBlocks(parallelCall.blockNumbers, parallelCall.results, 1)
       /\ \A j \in 1..Len(parallelCall.outcome.value) :
            parallelCall.outcome.value[j] \in
              {RpcBlock(n, 1, TRUE) : n \in 0..(MaxHeights - 1)}
  /\ (\E k \in 1..Len(parallelCall.results) :
        parallelCall.results[k] \in GetBlockErrors) =>
       /\ parallelCall.pc = "done"
       /\ parallelCall.outcome.kind = "raised"
       /\ \E k \in 1..Len(parallelCall.results) :
            parallelCall.outcome.error = parallelCall.results[k]

\* C15 witness: three heights in descending order, the middle one answered
\* null; the call returned the blocks of the first and the third
C15_Witness ==
  /\ parallelCall.blockNumbers = <<2, 1, 0>>
  /\ parallelCall.results = <<"block", Null, "block">>
  /\ parallelCall.outcome = Returned(<<RpcBlock(2, 1, TRUE), RpcBlock(0, 1, TRUE)>>)

(***************************************************************************)
(* RpcClient.connect / close                                               *)
(***************************************************************************)
connFrame == <<rpcRetries, gbScript, gbPc, gbNumber, gbAttempt, gbAnswers, gbSleeps,
               gbLastError, gbOutcome, rangeCall, parallelCall, proc, laterStart, storeVars, sbVars, bfVars>>

\* if (this.wsProvider._websocket) this.wsProvider._websocket.on('error', ...)
\* the sockets that have the error handler after socket `ws` has been made
registerErrorHandler(handlers, ws, hasSocketField) ==
  IF hasSocketField THEN handlers \cup {ws} ELSE handlers

\* RpcClient.connect up to `await this.httpProvider.getNetwork()`
connectCall ==
  /\ conn.pc \in {"idle", "done"}
  /\ conn.connects < MaxConnects
  /\ conn' = [conn EXCEPT !.pc = "network", !.connects = conn.connects + 1,
                          !.httpProvider = conn.connects + 1, !.outcome = NoOutcome]
  /\ UNCHANGED connFrame

\* getNetwork settles.  On success the websocket provider is constructed
\* (config.ws always holds a URL): the constructor returns or throws, and the
\* provider object exposes a `_websocket` field or not.
connectNetwork(httpOk, wsOk, hasSocketField) ==
  LET ws == conn.made + 1 IN
  /\ conn.pc = "network"
  /\ conn' =
       IF ~httpOk
         THEN [conn EXCEPT !.pc = "done", !.httpOk = FALSE, !.wsOk = FALSE,
                           !.outcome = Raised("Connection refused")]
         ELSE IF wsOk
           THEN [conn EXCEPT !.pc = "done", !.httpOk = TRUE, !.wsOk = TRUE,
                             !.wsProvider = ws, !.made = ws,
                             !.sockets = conn.sockets \cup {ws},
                             !.handlers = registerErrorHandler(conn.handlers, ws,
                                                               hasSocketField),
                             !.isConnected = TRUE, !.outcome = Returned(TRUE)]
           ELSE [conn EXCEPT !.pc = "done", !.httpOk = TRUE, !.wsOk = FALSE,
                             !.wsProvider = 0,
                             !.isConnected = TRUE, !.outcome = Returned(TRUE)]
  /\ UNCHANGED connFrame

\* websocket `ws` emits 'error': the handler, where one was registered, runs
\* `this.wsProvider = null`
socketError(ws) ==
  /\ ws \in conn.sockets
  /\ ws \notin conn.erred
  /\ conn' = [conn EXCEPT !.erred = conn.erred \cup {ws},
                          !.wsProvider = IF ws \in conn.handlers THEN 0
                                         ELSE conn.wsProvider]
  /\ UNCHANGED connFrame

\* RpcClient.close: if (this.wsProvider) await this.wsProvider.destroy();
\* this.isConnected = false
rpcClose ==
  /\ conn.pc = "done"
  /\ conn.closes = 0
  /\ conn' = [conn EXCEPT !.closes = 1, !.isConnected = FALSE,
                          !.sockets = conn.sockets \ {conn.wsProvider}]
  /\ UNCHANGED connFrame

InitConnect ==
  /\ store = {}
  /\ SaveBlocksIdle
  /\ FetcherIdle
  /\ GetBlockIdle

NextConnect ==
  \/ connectCall
  \/ \E httpOk \in BOOLEAN, wsOk \in BOOLEAN, hasSocketField \in BOOLEAN :
       connectNetwork(httpOk, wsOk, hasSocketField)
  \/ \E ws \in 1..MaxConnects : socketError(ws)
  \/ rpcClose

SpecConnect == InitConnect /\ [][NextConnect]_vars

\* C16 (as stated), for the first connect() of a client that has not been
\* closed: if the HTTP check succeeded, connect() returned true with
\* isConnected = true, whatever the websocket constructor did; after a failed
\* websocket construction, and after an error event of the provider's socket,
\* wsProvider is null; connect() raised, with isConnected false, exactly when
\* the HTTP check failed.
C16_WebsocketNeverFatal ==
  (conn.connects = 1 /\ conn.pc = "done" /\ conn.closes = 0)
  => /\ conn.httpOk => (conn.outcome = Returned(TRUE) /\ conn.isConnected)
     /\ ~conn.httpOk => (conn.outcome.kind = "raised" /\ ~conn.isConnected)
     /\ (conn.httpOk /\ ~conn.wsOk) => conn.wsProvider = 0
     /\ conn.wsProvider # 0 => conn.wsProvider \notin conn.erred

(***************************************************************************)
(* The indexer process: shutdown(signal) and the handlers that call it     *)
(***************************************************************************)
\* process.on('SIGINT' | 'SIGTERM' | 'uncaughtException' | 'unhandledRejection')
ProcessEvents == {"SIGINT", "SIGTERM", "uncaughtException", "unhandledRejection"}

procFrame == <<rpcRetries, gbScript, gbPc, gbNumber, gbAttempt, gbAnswers, gbSleeps,
               gbLastError, gbOutcome, rangeCall, parallelCall, conn, laterStart, storeVars, sbVars,
               config, driver, chainHead, fpc, currentBlock, syncBy, syncPc, batches,
               chunkAt, processedBatches, failedBatches, tasks, started, headAtStart,
               polled, faulted, coldStart, startCalls, calm>>

\* if (isShuttingDown) { logger.warn(...); return; }
shutdownInProgressMutNever(isShuttingDown) == FALSE

shutdownInProgress(isShuttingDown) == isShuttingDown

\* process.exit(code)
processExit(p, code) == [p EXCEPT !.pc = "exited", !.exitCode = code]

\* one of the four events is delivered and its handler calls shutdown(signal),
\* which runs up to its first await: either the warning and return, or
\* isShuttingDown = true and blockFetcher.stop() up to `await rpcClient.close()`
shutdown(signal) ==
  /\ proc.pc # "exited"
  /\ Len(proc.events) < MaxEvents
  /\ IF shutdownInProgress(proc.isShuttingDown)
       THEN /\ proc' = [proc EXCEPT !.events = Append(@, signal), !.warnings = @ + 1]
            /\ UNCHANGED <<isRunning, stopCalled>>
       ELSE /\ proc' = [proc EXCEPT !.events = Append(@, signal),
                                    !.isShuttingDown = TRUE,
                                    !.ran = Append(@, signal),
                                    !.stopCalls = @ + 1,
                                    !.rpcCloses = @ + 1,
                                    !.pc = "stop"]
            /\ isRunning' = FALSE
            /\ stopCalled' = TRUE
  /\ UNCHANGED procFrame

\* `await blockFetcher.stop()` settles; getStats() is called
shutdownStopped(ok) ==
  /\ proc.pc = "stop"
  /\ proc' = IF ok THEN [proc EXCEPT !.pc = "stats"] ELSE processExit(proc, 1)
  /\ UNCHANGED <<procFrame, isRunning, stopCalled>>

\* `await blockFetcher.getStats()` settles; db.close() is called
shutdownStats(ok) ==
  /\ proc.pc = "stats"
  /\ proc' = IF ok THEN [proc EXCEPT !.pc = "dbclose", !.dbCloses = @ + 1]
             ELSE processExit(proc, 1)
  /\ UNCHANGED <<procFrame, isRunning, stopCalled>>

\* `await db.close()` settles; process.exit(0), or process.exit(1) in the catch
shutdownClosed(ok) ==
  /\ proc.pc = "dbclose"
  /\ proc' = processExit(proc, IF ok THEN 0 ELSE 1)
  /\ UNCHANGED <<procFrame, isRunning, stopCalled>>

\* main(): an error of healthCheck, initialize or start reaches the catch,
\* which calls process.exit(1)
mainFailed ==
  /\ proc.pc # "exited"
  /\ proc' = processExit(proc, 1)
  /\ UNCHANGED <<procFrame, isRunning, stopCalled>>

InitShutdown ==
  /\ store = {}
  /\ SaveBlocksIdle
  /\ GetBlockIdle
  /\ syncBy = "none"
  /\ syncPc = "none"
  /\ batches = <<>>
  /\ chunkAt = 0
  /\ processedBatches = 0
  /\ failedBatches = <<>>
  /\ tasks = <<>>
  /\ started = <<>>
  /\ headAtStart = NoNumber
  /\ polled = FALSE
  /\ faulted = FALSE
  /\ coldStart = FALSE
  /\ startCalls = 0
  /\ calm = FALSE
  /\ stopCalled = FALSE
  /\ config = DefaultConfig
  /\ driver = "process"
  /\ chainHead = 0
  /\ fpc = "new"
  /\ currentBlock = NoNumber
  /\ isRunning \in BOOLEAN

NextShutdown ==
  \/ \E signal \in ProcessEvents : shutdown(signal)
  \/ \E ok \in BOOLEAN : shutdownStopped(ok)
  \/ \E ok \in BOOLEAN : shutdownStats(ok)
  \/ \E ok \in BOOLEAN : shutdownClosed(ok)
  \/ mainFailed

SpecShutdown == InitShutdown /\ [][NextShutdown]_vars

\* C21: whatever events are delivered, only the first one runs the shutdown
\* sequence: blockFetcher.stop(), rpcClient.close() and db.close() are each
\* called at most once, and every later event is answered by the warning.
C21_ShutdownOnce ==
  /\ proc.stopCalls <= 1
  /\ proc.rpcCloses <= 1
  /\ proc.dbCloses <= 1
  /\ proc.ran = (IF proc.events = <<>> THEN <<>> ELSE <<proc.events[1]>>)
  /\ proc.stopCalls = Len(proc.ran)
  /\ proc.warnings = Len(proc.events) - Len(proc.ran)

\* C21: three events were delivered, the last two while the sequence of the
\* first was running; it got as far as db.close()
C21_Witness ==
  /\ Len(proc.events) = 3
  /\ proc.warnings = 2
  /\ proc.stopCalls = 1
  /\ proc.dbCloses = 1
  /\ proc.pc = "dbclose"

(***************************************************************************)
(* BlockFetcher                                                            *)
(***************************************************************************)
\* the config object: environment values, fixed when the module is loaded
Configs ==
  [startBlock : 0..MaxStartBlock, batchSize : 1..MaxBatchSize,
   parallelBatches : 1..MaxParallel, blockDelay : {0, 1},
   enableReorgCheck : BOOLEAN, maxRetries : 0..MaxRetries]

\* the canonical block the endpoint serves at height n
ChainBlock(n) == RpcBlock(n, 1, TRUE)

\* a table left by earlier runs: the heights lo..hi, canonical below the fork
\* point f and of an abandoned fork from f on
StoreOf(lo, hi, f) ==
  {transformBlock(RpcBlock(n, IF n >= f THEN 2 ELSE 1, TRUE)) : n \in lo..hi}
InitialStores ==
  {StoreOf(lo, hi, f) : lo \in 0..MaxHead, hi \in 0..MaxHead, f \in 0..(MaxHead + 1)}

\* a || b
OrElse(a, b) == IF a = NoNumber \/ a = 0 THEN b ELSE a

\* BlockStorage.getLastBlockNumber: SELECT number ... ORDER BY number DESC LIMIT 1
getLastBlockNumber(rows) ==
  IF rows = {} THEN NoNumber
  ELSE CHOOSE n \in {r.number : r \in rows} : \A r \in rows : r.number <= n

\* BlockStorage.getBlock: SELECT * FROM blocks WHERE number = $1
getStoredBlock(rows, n) ==
  IF \E r \in rows : r.number = n
    THEN CHOOSE r \in rows : r.number = n
    ELSE NoRow

RECURSIVE PartitionMutNoClamp(_, _, _)
\* a variant whose last batch is not cut at toBlock
PartitionMutNoClamp(fromBlock, toBlock, batchSize) ==
  IF fromBlock > toBlock THEN <<>>
  ELSE <<[from |-> fromBlock, to |-> fromBlock + batchSize - 1]>>
       \o PartitionMutNoClamp(fromBlock + batchSize, toBlock, batchSize)

RECURSIVE Partition(_, _, _)
\* for (let start = fromBlock; start <= toBlock; start += batchSize)
\*   batches.push({ from: start, to: Math.min(start + batchSize - 1, toBlock) })
Partition(fromBlock, toBlock, batchSize) ==
  IF fromBlock > toBlock THEN <<>>
  ELSE <<[from |-> fromBlock, to |-> Min(fromBlock + batchSize - 1, toBlock)]>>
       \o Partition(fromBlock + batchSize, toBlock, batchSize)

\* batches.slice(i, i + parallelBatches)
ChunkSliceMutOneMore(bs, i, parallelBatches) ==
  SubSeq(bs, i + 1, Min(i + parallelBatches + 1, Len(bs)))

ChunkSlice(bs, i, parallelBatches) == SubSeq(bs, i + 1, Min(i + parallelBatches, Len(bs)))

\* what the running attempt of a batch has done so far: the table when the
\* attempt began, the blocks it fetched, the heights checkForReorgs looked up
\* and the deleteBlocksFrom calls it made
NewAttempt(rows) == [before |-> rows, fetched |-> <<>>, lookups |-> <<>>, deletes |-> <<>>]

\* fetchAndSaveBatchWithRetry(from, to) up to its first await: retryCount = 0 and
\* the first fetchAndSaveBatch is waiting for getBlockRange
NewTask(b) ==
  [from |-> b.from, to |-> b.to, pc |-> "fetch", retryCount |-> 0, attempts |-> 1,
   blocks |-> <<>>, idx |-> 0, sleeps |-> <<>>, outcome |-> NoOutcome,
   attempt |-> NewAttempt(store)]

\* if (retryCount > maxRetries)
retryExhaustedMutEarly(retryCount, maxRetries) == retryCount >= maxRetries

retryExhausted(retryCount, maxRetries) == retryCount > maxRetries

\* const delay = Math.pow(2, retryCount) * 1000
batchRetryDelayMutFromOne(retryCount) == Pow2(retryCount - 1) * BackoffUnitMs

batchRetryDelay(retryCount) == Pow2(retryCount) * BackoffUnitMs

\* the catch block of fetchAndSaveBatchWithRetry: the attempt threw `src`
TaskAfterFailure(task, src) ==
  LET error == [src |-> src, attempt |-> task.attempts]
      rc == task.retryCount + 1
  IN IF retryExhausted(rc, config.maxRetries)
       THEN [task EXCEPT !.pc = "rejected", !.retryCount = rc, !.blocks = <<>>,
                         !.idx = 0, !.outcome = Raised(error)]
       ELSE [task EXCEPT !.pc = "sleep", !.retryCount = rc, !.blocks = <<>>, !.idx = 0,
                         !.sleeps = Append(task.sleeps, batchRetryDelay(rc))]

\* `return; // Success`
TaskFulfilled(task) ==
  [task EXCEPT !.pc = "fulfilled", !.blocks = <<>>, !.idx = 0, !.outcome = Returned(Null)]

RECURSIVE AscendingBlocks(_, _, _)
\* RpcClient.getBlockRange: the blocks of the heights that answered a block, in
\* ascending order (a null answer is skipped)
AscendingBlocks(fromBlock, toBlock, present) ==
  IF fromBlock > toBlock THEN <<>>
  ELSE (IF fromBlock \in present THEN <<ChainBlock(fromBlock)>> ELSE <<>>)
       \o AscendingBlocks(fromBlock + 1, toBlock, present)

\* checkForReorgs: `if (block.number === 0) continue;`
NextCheckIdxMutNoSkip(blocks, i) == i

RECURSIVE NextCheckIdx(_, _)
\* checkForReorgs: `if (block.number === 0) continue;`
NextCheckIdx(blocks, i) ==
  IF i > Len(blocks) THEN i
  ELSE IF blocks[i].number = 0 THEN NextCheckIdx(blocks, i + 1) ELSE i

RECURSIVE InsertAll(_, _, _, _)
\* the callback of saveBlocks run to its end inside one transaction
InsertAll(rows, blocks, i, saved) ==
  IF i > Len(blocks) THEN [kind |-> "returned", value |-> saved, rows |-> rows]
  ELSE LET row == transformBlock(blocks[i])
           res == InsertOnConflict(rows, row)
       IN IF res.status = "unique_violation"
            THEN [kind |-> "raised", error |-> "unique_violation", rows |-> rows]
            ELSE InsertAll(IF res.status = "inserted" THEN rows \cup {row} ELSE rows,
                           blocks, i + 1, saved + res.rowCount)

\* BlockStorage.saveBlocks as one step of a batch task: the transaction either
\* commits all its rows or, on a failing statement (`fault`) or a unique
\* violation, is rolled back
saveBlocksAtomic(rows, blocks, fault) ==
  IF Len(blocks) = 0 THEN [kind |-> "returned", value |-> 0, rows |-> rows]
  ELSE IF fault THEN [kind |-> "raised", error |-> "db", rows |-> rows]
  ELSE LET res == InsertAll(rows, blocks, 1, 0)
       IN IF res.kind = "raised" THEN [res EXCEPT !.rows = rows] ELSE res

\* ---------------------------------------------------------------- batch tasks
taskFrame == <<config, driver, chainHead, fpc, isRunning, stopCalled, syncBy, syncPc,
               batches, chunkAt, processedBatches, failedBatches, started, headAtStart,
               polled, coldStart, startCalls, calm>>

\* fetchAndSaveBatch: `await rpcClient.getBlockRange(from, to)` settles, with an
\* error or with the blocks of the heights in `present`
fetchAndSaveBatchFetched(t, failed, present) ==
  LET task == tasks[t]
      blocks == AscendingBlocks(task.from, task.to, present)
      first == NextCheckIdx(blocks, 1)
  IN /\ task.pc = "fetch"
     /\ present \subseteq task.from..task.to
     /\ failed => present = {}
     /\ tasks' = [tasks EXCEPT ![t] =
          IF failed THEN TaskAfterFailure(task, "rpc")
          ELSE IF Len(blocks) = 0 THEN TaskFulfilled(task)
          ELSE IF config.enableReorgCheck /\ first <= Len(blocks)
            THEN [task EXCEPT !.pc = "check", !.blocks = blocks, !.idx = first,
                              !.attempt.fetched = blocks]
            ELSE [task EXCEPT !.pc = "save", !.blocks = blocks,
                              !.attempt.fetched = blocks]]
     /\ faulted' = (faulted \/ failed \/ present # task.from..task.to)
     /\ UNCHANGED <<storeVars, sbVars, gbVars, taskFrame, currentBlock>>

\* checkForReorgs: `await blockStorage.getBlock(block.number)` settles
checkForReorgsLookup(t, ok) ==
  LET task == tasks[t]
      block == task.blocks[task.idx]
      existingBlock == getStoredBlock(store, block.number)
      next == NextCheckIdx(task.blocks, task.idx + 1)
      looked == [task EXCEPT !.attempt.lookups = Append(@, block.number)]
  IN /\ task.pc = "check"
     /\ tasks' = [tasks EXCEPT ![t] =
          IF ~ok THEN TaskAfterFailure(looked, "db")
          ELSE IF existingBlock # NoRow /\ BytesToHex(existingBlock.hash) # block.hash
            THEN [looked EXCEPT !.pc = "delete"]
            ELSE IF next <= Len(task.blocks)
              THEN [looked EXCEPT !.idx = next]
              ELSE [looked EXCEPT !.pc = "save", !.idx = 0]]
     /\ faulted' = (faulted \/ ~ok)
     /\ UNCHANGED <<storeVars, sbVars, gbVars, taskFrame, currentBlock>>

\* this.currentBlock = block.number - 1
reorgCursorMutSame(n) == n

reorgCursor(n) == n - 1

\* checkForReorgs: `await blockStorage.deleteBlocksFrom(block.number)` settles;
\* then this.currentBlock = block.number - 1; break; and saveBlocks is called
checkForReorgsDeleted(t, ok) ==
  LET task == tasks[t]
      n == task.blocks[task.idx].number
  IN /\ task.pc = "delete"
     /\ IF ok
          THEN /\ store' = RowsBelow(store, n)
               /\ currentBlock' = reorgCursor(n)
               /\ tasks' = [tasks EXCEPT ![t] =
                    [task EXCEPT !.pc = "save", !.idx = 0,
                                 !.attempt.deletes = Append(@, n)]]
          ELSE /\ tasks' = [tasks EXCEPT ![t] = TaskAfterFailure(task, "db")]
               /\ UNCHANGED <<store, currentBlock>>
     /\ faulted' = (faulted \/ ~ok)
     /\ UNCHANGED <<txnRows, held, sbVars, gbVars, taskFrame>>

\* a variant in which a failing saveBlocks also undoes the deleteBlocksFrom of
\* the attempt, as if both ran in one transaction
fetchAndSaveBatchSavedMutUndoesDelete(t, ok) ==
  LET task == tasks[t]
      res == saveBlocksAtomic(store, task.blocks, ~ok)
  IN /\ task.pc = "save"
     /\ store' = IF res.kind = "raised" THEN task.attempt.before ELSE res.rows
     /\ tasks' = [tasks EXCEPT ![t] =
          IF res.kind = "raised" THEN TaskAfterFailure(task, res.error)
          ELSE TaskFulfilled(task)]
     /\ faulted' = (faulted \/ res.kind = "raised")
     /\ UNCHANGED <<txnRows, held, sbVars, gbVars, taskFrame, currentBlock>>

\* fetchAndSaveBatch: `await blockStorage.saveBlocks(blocks)` settles
fetchAndSaveBatchSaved(t, ok) ==
  LET task == tasks[t]
      res == saveBlocksAtomic(store, task.blocks, ~ok)
  IN /\ task.pc = "save"
     /\ store' = res.rows
     /\ tasks' = [tasks EXCEPT ![t] =
          IF res.kind = "raised" THEN TaskAfterFailure(task, res.error)
          ELSE TaskFulfilled(task)]
     /\ faulted' = (faulted \/ res.kind = "raised")
     /\ UNCHANGED <<txnRows, held, sbVars, gbVars, taskFrame, currentBlock>>

\* fetchAndSaveBatchWithRetry: `await this.sleep(delay)` is over, the while
\* condition holds and fetchAndSaveBatch is called again
fetchAndSaveBatchWithRetryWake(t) ==
  LET task == tasks[t]
  IN /\ task.pc = "sleep"
     /\ tasks' = [tasks EXCEPT ![t] =
          [task EXCEPT !.pc = "fetch", !.attempts = task.attempts + 1,
                       !.attempt = NewAttempt(store)]]
     /\ UNCHANGED <<storeVars, sbVars, gbVars, taskFrame, currentBlock, faulted>>

\* ------------------------------------------------------- syncHistoricalBlocks
\* what the caller of syncHistoricalBlocks does when it returns, up to its next
\* await: start() enters startRealTimeSync and its while (this.isRunning);
\* the tail loop goes to sleep(pollInterval); a direct caller has its result
AfterSync(by) ==
  IF by = "start" THEN (IF isRunning THEN "tail_head" ELSE "returned")
  ELSE IF by = "tail" THEN "tail_sleep"
  ELSE "returned"

\* for (...; i < batches.length && this.isRunning; ...)
syncLoopGuardMutIgnoresFlag(bs, i, running) == i < Len(bs)

syncLoopGuard(bs, i, running) == i < Len(bs) /\ running

\* the head of the for loop at index i: either the next chunk is started
\* (Promise.allSettled(chunk.map(...))), or the loop ends, the summary is
\* logged and syncHistoricalBlocks returns
EnterLoop(bs, i, by, startedSoFar) ==
  LET chunk == ChunkSlice(bs, i, config.parallelBatches) IN
  /\ batches' = bs
  /\ chunkAt' = i
  /\ syncBy' = by
  /\ IF syncLoopGuard(bs, i, isRunning)
       THEN /\ tasks' = [k \in 1..Len(chunk) |-> NewTask(chunk[k])]
            /\ started' = startedSoFar \o chunk
            /\ syncPc' = "chunk"
            /\ fpc' = "sync"
       ELSE /\ tasks' = <<>>
            /\ started' = startedSoFar
            /\ syncPc' = "done"
            /\ fpc' = AfterSync(by)

\* syncHistoricalBlocks(fromBlock, toBlock) up to its first await
BeginSync(fromBlock, toBlock, by) ==
  /\ processedBatches' = 0
  /\ failedBatches' = <<>>
  /\ EnterLoop(Partition(fromBlock, toBlock, config.batchSize), 0, by, <<>>)

Settled(task) == task.pc \in {"fulfilled", "rejected"}

RECURSIVE CursorAfterMutEveryResult(_, _, _)
\* a variant that advances the cursor for rejected results as well
CursorAfterMutEveryResult(ts, k, cursor) ==
  IF k > Len(ts) THEN cursor
  ELSE CursorAfterMutEveryResult(ts, k + 1, Max(cursor, ts[k].to))

RECURSIVE CursorAfter(_, _, _)
\* results.forEach: this.currentBlock = Math.max(this.currentBlock, batch.to)
\* for every fulfilled result
CursorAfter(ts, k, cursor) ==
  IF k > Len(ts) THEN cursor
  ELSE CursorAfter(ts, k + 1,
                   IF ts[k].pc = "fulfilled" THEN Max(cursor, ts[k].to) ELSE cursor)

RECURSIVE FailedOf(_, _)
\* results.forEach: failedBatches.push({ ...batch, error }) for every rejected result
FailedOf(ts, k) ==
  IF k > Len(ts) THEN <<>>
  ELSE (IF ts[k].pc = "rejected"
          THEN <<[from |-> ts[k].from, to |-> ts[k].to, error |-> ts[k].outcome.error]>>
          ELSE <<>>)
       \o FailedOf(ts, k + 1)

\* results.forEach: processedBatches++ for every fulfilled result
FulfilledCountMutEveryResult(ts) == Len(ts)

FulfilledCount(ts) == Cardinality({k \in 1..Len(ts) : ts[k].pc = "fulfilled"})

\* `await Promise.allSettled(...)` resumes when every promise has settled
allSettledMutFirst(ts) == \E k \in 1..Len(ts) : Settled(ts[k])

allSettled(ts) == \A k \in 1..Len(ts) : Settled(ts[k])

\* a variant of the chunk handling in which the first rejection ends the sync
\* (Promise.all in place of Promise.allSettled)
syncChunkSettledMutAbort ==
  /\ syncPc = "chunk"
  /\ \A k \in 1..Len(tasks) : Settled(tasks[k])
  /\ processedBatches' = processedBatches + FulfilledCount(tasks)
  /\ currentBlock' = CursorAfter(tasks, 1, currentBlock)
  /\ failedBatches' = failedBatches \o FailedOf(tasks, 1)
  /\ IF \E k \in 1..Len(tasks) : tasks[k].pc = "rejected"
       THEN /\ syncPc' = "done"
            /\ tasks' = <<>>
            /\ fpc' = "failed"
            /\ UNCHANGED <<batches, chunkAt, syncBy, started>>
       ELSE EnterLoop(batches, chunkAt + config.parallelBatches, syncBy, started)
  /\ UNCHANGED <<storeVars, sbVars, gbVars, config, driver, chainHead, isRunning,
                 stopCalled, headAtStart, polled, faulted, coldStart, startCalls, calm>>

\* Promise.allSettled has settled: the results are recorded, then either the
\* inter-chunk sleep starts or the loop goes on with i += parallelBatches
syncChunkSettled ==
  /\ syncPc = "chunk"
  /\ allSettled(tasks)
  /\ processedBatches' = processedBatches + FulfilledCount(tasks)
  /\ currentBlock' = CursorAfter(tasks, 1, currentBlock)
  /\ failedBatches' = failedBatches \o FailedOf(tasks, 1)
  /\ IF config.blockDelay > 0 /\ chunkAt + config.parallelBatches < Len(batches)
       THEN /\ syncPc' = "delay"
            /\ tasks' = <<>>
            /\ UNCHANGED <<batches, chunkAt, syncBy, started, fpc>>
       ELSE EnterLoop(batches, chunkAt + config.parallelBatches, syncBy, started)
  /\ UNCHANGED <<storeVars, sbVars, gbVars, config, driver, chainHead, isRunning,
                 stopCalled, headAtStart, polled, faulted, coldStart, startCalls, calm>>

\* `await this.sleep(config.indexer.blockDelay)` is over
syncDelayOver ==
  /\ syncPc = "delay"
  /\ EnterLoop(batches, chunkAt + config.parallelBatches, syncBy, started)
  /\ UNCHANGED <<storeVars, sbVars, gbVars, config, driver, chainHead, isRunning,
                 stopCalled, headAtStart, polled, faulted, coldStart, startCalls, calm,
                 currentBlock, processedBatches, failedBatches>>

\* ------------------------------------------------------------ the life cycle
\* the locals of a syncHistoricalBlocks call that has returned are gone
ForgetSync ==
  /\ syncBy' = "none"
  /\ syncPc' = "none"
  /\ batches' = <<>>
  /\ chunkAt' = 0
  /\ processedBatches' = 0
  /\ failedBatches' = <<>>
  /\ tasks' = <<>>
  /\ started' = <<>>

\* BlockFetcher.initialize, called by main(): connect, getBlockNumber,
\* getLastBlockNumber; any failure is rethrown and main() exits
initialize(ok) ==
  /\ driver = "main"
  /\ fpc = "new"
  /\ IF ok
       THEN /\ currentBlock' = OrElse(getLastBlockNumber(store), config.startBlock)
            /\ fpc' = "initialized"
       ELSE /\ fpc' = "failed"
            /\ UNCHANGED currentBlock
  /\ faulted' = (faulted \/ ~ok)
  /\ coldStart' = (store = {})
  /\ UNCHANGED <<storeVars, sbVars, gbVars, config, driver, chainHead, isRunning,
                 stopCalled, syncBy, syncPc, batches, chunkAt, processedBatches,
                 failedBatches, tasks, started, headAtStart, polled, startCalls, calm>>

\* if (this.isRunning) { logger.warn(...); return; }
alreadyRunningMutNever(running) == FALSE

alreadyRunning(running) == running

\* BlockFetcher.start up to `await rpcClient.getBlockNumber()`
start ==
  /\ driver = "main"
  /\ fpc = "initialized"
  /\ startCalls' = startCalls + 1
  /\ IF alreadyRunning(isRunning)
       THEN UNCHANGED <<isRunning, fpc>>
       ELSE isRunning' = TRUE /\ fpc' = "start_head"
  /\ UNCHANGED <<storeVars, sbVars, gbVars, config, driver, chainHead, currentBlock,
                 stopCalled, syncBy, syncPc, batches, chunkAt, processedBatches,
                 failedBatches, tasks, started, headAtStart, polled, faulted, coldStart,
                 calm>>

\* a further call of start(), up to its first await: made while an earlier
\* call is running, or after the earlier call has returned or thrown
startAgain ==
  /\ driver = "main"
  /\ startCalls \in 1..(MaxStarts - 1)
  /\ isRunning \/ fpc \in {"returned", "failed"}
  /\ startCalls' = startCalls + 1
  /\ IF alreadyRunning(isRunning)
       THEN UNCHANGED <<isRunning, fpc>>
       ELSE isRunning' = TRUE /\ fpc' = "start_head"
  /\ UNCHANGED <<storeVars, sbVars, gbVars, config, driver, chainHead, currentBlock,
                 stopCalled, syncBy, syncPc, batches, chunkAt, processedBatches,
                 failedBatches, tasks, started, headAtStart, polled, faulted, coldStart,
                 calm>>

\* syncHistoricalBlocks(this.currentBlock + 1, chainHeight): the first height
\* start() and the tail loop ask for
syncFromMutAtCursor(cursor) == cursor

syncFrom(cursor) == cursor + 1

\* BlockFetcher.start: the chain height arrives (or the call fails: isRunning
\* = false and the error is rethrown)
startHead(ok) ==
  /\ fpc = "start_head"
  /\ IF ~ok
       THEN /\ isRunning' = FALSE
            /\ fpc' = "failed"
            /\ UNCHANGED <<headAtStart, syncBy, syncPc, batches, chunkAt, processedBatches,
                           failedBatches, tasks, started>>
       ELSE /\ headAtStart' = chainHead
            /\ UNCHANGED isRunning
            /\ IF currentBlock < chainHead
                 THEN BeginSync(syncFrom(currentBlock), chainHead, "start")
                 ELSE /\ fpc' = AfterSync("start")
                      /\ UNCHANGED <<syncBy, syncPc, batches, chunkAt, processedBatches,
                                     failedBatches, tasks, started>>
  /\ faulted' = (faulted \/ ~ok)
  /\ UNCHANGED <<storeVars, sbVars, gbVars, config, driver, chainHead, currentBlock,
                 stopCalled, polled, coldStart, startCalls, calm>>

\* startRealTimeSync: if (chainHeight > this.currentBlock)
newBlocksDetectedMutOrEqual(chainHeight, cursor) == chainHeight >= cursor

newBlocksDetected(chainHeight, cursor) == chainHeight > cursor

\* startRealTimeSync: catch (error) { logger.error(...) }, then the sleep
tailCatchMutRethrow == "failed"

tailCatch == "tail_sleep"

\* startRealTimeSync: `await rpcClient.getBlockNumber()` settles; an error is
\* logged and swallowed
startRealTimeSyncHead(ok) ==
  /\ fpc = "tail_head"
  /\ polled' = TRUE
  /\ IF ok /\ newBlocksDetected(chainHead, currentBlock)
       THEN BeginSync(syncFrom(currentBlock), chainHead, "tail")
       ELSE /\ fpc' = (IF ok THEN "tail_sleep" ELSE tailCatch)
            /\ ForgetSync
  /\ faulted' = (faulted \/ ~ok)
  /\ UNCHANGED <<storeVars, sbVars, gbVars, config, driver, chainHead, currentBlock,
                 isRunning, stopCalled, headAtStart, coldStart, startCalls, calm>>

\* startRealTimeSync: `await this.sleep(pollInterval)` is over; while (this.isRunning)
startRealTimeSyncWake ==
  /\ fpc = "tail_sleep"
  /\ fpc' = IF isRunning THEN "tail_head" ELSE "returned"
  /\ ForgetSync
  /\ UNCHANGED <<storeVars, sbVars, gbVars, config, driver, chainHead, currentBlock,
                 isRunning, stopCalled, headAtStart, polled, faulted, coldStart, startCalls, calm>>

\* BlockFetcher.stop: this.isRunning = false; await rpcClient.close()
stop ==
  /\ driver = "main"
  /\ ~stopCalled
  /\ fpc \notin {"new", "failed", "returned"}
  /\ isRunning' = FALSE
  /\ stopCalled' = TRUE
  /\ faulted' = TRUE
  /\ UNCHANGED <<storeVars, sbVars, gbVars, config, driver, chainHead, fpc, currentBlock,
                 syncBy, syncPc, batches, chunkAt, processedBatches, failedBatches,
                 tasks, started, headAtStart, polled, coldStart, startCalls, calm>>

\* a direct call syncHistoricalBlocks(currentBlock + 1, chainHeight), as the
\* tail loop and the unit tests make it
syncHistoricalBlocksCall ==
  /\ driver = "sync"
  /\ fpc = "ready"
  /\ BeginSync(currentBlock + 1, chainHead, "api")
  /\ UNCHANGED <<storeVars, sbVars, gbVars, config, driver, chainHead, currentBlock,
                 isRunning, stopCalled, headAtStart, polled, faulted, coldStart, startCalls, calm>>

\* the chain grows by one block.  Nothing reads the chain height while a sync
\* is running, so growth is taken into account when the next read is due.
chainAdvance ==
  /\ driver = "main"
  /\ fpc \in {"new", "initialized", "start_head", "tail_head", "tail_sleep"}
  /\ chainHead < MaxHead
  /\ chainHead' = chainHead + 1
  /\ UNCHANGED <<storeVars, sbVars, gbVars, config, driver, fpc, currentBlock, isRunning,
                 stopCalled, syncBy, syncPc, batches, chunkAt, processedBatches,
                 failedBatches, tasks, started, headAtStart, polled, faulted, coldStart, startCalls, calm>>

SyncIdle ==
  /\ syncBy = "none"
  /\ syncPc = "none"
  /\ batches = <<>>
  /\ chunkAt = 0
  /\ processedBatches = 0
  /\ failedBatches = <<>>
  /\ tasks = <<>>
  /\ started = <<>>
  /\ headAtStart = NoNumber
  /\ polled = FALSE
  /\ faulted = FALSE
  /\ coldStart = FALSE
  /\ startCalls = 0
  /\ calm = FALSE
  /\ stopCalled = FALSE

\* main() of src/indexer/index.js: a constructed fetcher, any table an earlier
\* run may have left
InitMain ==
  /\ driver = "main"
  /\ config \in Configs
  /\ store \in InitialStores
  /\ chainHead \in 0..MaxHead
  /\ fpc = "new"
  /\ currentBlock = NoNumber
  /\ isRunning = FALSE

\* syncHistoricalBlocks driven directly: a running fetcher whose cursor is
\* behind the table, the one situation main() never produces by itself
InitSync ==
  /\ driver = "sync"
  /\ config \in {c \in Configs : c.startBlock = 0}
  /\ store \in InitialStores
  /\ chainHead \in 0..MaxHead
  /\ fpc = "ready"
  /\ currentBlock \in -1..(chainHead - 1)
  /\ getLastBlockNumber(store) > currentBlock
  /\ isRunning = TRUE

Init ==
  /\ SaveBlocksIdle
  /\ GetBlockIdle
  /\ SyncIdle
  /\ (InitMain \/ InitSync)

Next ==
  \/ \E ok \in BOOLEAN : initialize(ok)
  \/ start
  \/ \E ok \in BOOLEAN : startHead(ok)
  \/ \E ok \in BOOLEAN : startRealTimeSyncHead(ok)
  \/ startRealTimeSyncWake
  \/ syncHistoricalBlocksCall
  \/ \E t \in 1..Len(tasks), failed \in BOOLEAN, present \in SUBSET (0..MaxHead) :
       fetchAndSaveBatchFetched(t, failed, present)
  \/ \E t \in 1..Len(tasks), ok \in BOOLEAN : checkForReorgsLookup(t, ok)
  \/ \E t \in 1..Len(tasks), ok \in BOOLEAN : checkForReorgsDeleted(t, ok)
  \/ \E t \in 1..Len(tasks), ok \in BOOLEAN : fetchAndSaveBatchSaved(t, ok)
  \/ \E t \in 1..Len(tasks) : fetchAndSaveBatchWithRetryWake(t)
  \/ syncChunkSettled
  \/ syncDelayOver
  \/ stop
  \/ chainAdvance

Spec == Init /\ [][Next]_vars

\* ---------------------------------------- one syncHistoricalBlocks call
\* syncHistoricalBlocks(currentBlock + 1, chainHeight) called on a running
\* fetcher, over any table and any cursor below the chain height
InitCall ==
  /\ SaveBlocksIdle
  /\ GetBlockIdle
  /\ SyncIdle
  /\ driver = "sync"
  /\ config \in {c \in Configs : c.startBlock = 0 /\ c.maxRetries = 0}
  /\ store \in InitialStores \cup {{}}
  /\ chainHead \in 0..MaxHead
  /\ fpc = "ready"
  /\ currentBlock \in -1..(chainHead - 1)
  /\ isRunning = TRUE

NextCall ==
  \/ syncHistoricalBlocksCall
  \/ \E t \in 1..Len(tasks), failed \in BOOLEAN, present \in SUBSET (0..MaxHead) :
       fetchAndSaveBatchFetched(t, failed, present)
  \/ \E t \in 1..Len(tasks), ok \in BOOLEAN : checkForReorgsLookup(t, ok)
  \/ \E t \in 1..Len(tasks), ok \in BOOLEAN : checkForReorgsDeleted(t, ok)
  \/ \E t \in 1..Len(tasks), ok \in BOOLEAN : fetchAndSaveBatchSaved(t, ok)
  \/ syncChunkSettled
  \/ syncDelayOver

SpecCall == InitCall /\ [][NextCall]_vars

\* ------------------------------------------ the fetcher over several calls
\* from now on every call to the endpoint and to the database succeeds, every
\* height up to the chain height answers its block, and the chain height and
\* the running flag are left alone
calmDown ==
  /\ driver = "main"
  /\ ~calm
  /\ calm' = TRUE
  /\ UNCHANGED <<storeVars, sbVars, gbVars, config, driver, chainHead, fpc, currentBlock,
                 isRunning, stopCalled, syncBy, syncPc, batches, chunkAt, processedBatches,
                 failedBatches, tasks, started, headAtStart, polled, faulted, coldStart,
                 startCalls>>

\* the outcomes a call to the endpoint or to the database can have
Outcomes == IF calm THEN {TRUE} ELSE BOOLEAN

\* the configurations SpecLife explores
LifeConfigs ==
  {c \in Configs : c.maxRetries = 0 /\ c.batchSize = MaxBatchSize}

InitLife ==
  /\ SaveBlocksIdle
  /\ GetBlockIdle
  /\ SyncIdle
  /\ driver = "main"
  /\ config \in LifeConfigs
  /\ store \in InitialStores
  /\ chainHead \in 0..MaxHead
  /\ fpc = "new"
  /\ currentBlock = NoNumber
  /\ isRunning = FALSE

\* started by initialize() and start(), every backfill lies above the
\* highest stored block, so no lookup of checkForReorgs finds a row and
\* deleteBlocksFrom is never called: the steps of a batch are the fetch, the
\* lookups and the save (retries are off in LifeConfigs)
NextLife ==
  \/ \E ok \in Outcomes : initialize(ok)
  \/ start
  \/ startAgain
  \/ \E ok \in Outcomes : startHead(ok)
  \/ \E ok \in Outcomes : startRealTimeSyncHead(ok)
  \/ startRealTimeSyncWake
  \/ \E t \in 1..Len(tasks), ok \in Outcomes, present \in SUBSET (0..MaxHead) :
       /\ calm => present = tasks[t].from..tasks[t].to
       /\ fetchAndSaveBatchFetched(t, ~ok, present)
  \/ \E t \in 1..Len(tasks), ok \in Outcomes : checkForReorgsLookup(t, ok)
  \/ \E t \in 1..Len(tasks), ok \in Outcomes : fetchAndSaveBatchSaved(t, ok)
  \/ syncChunkSettled
  \/ syncDelayOver
  \/ (~calm /\ stop)
  \/ (~calm /\ chainAdvance)
  \/ calmDown

\* the event loop runs every continuation that is ready and every timer fires
SpecLife == InitLife /\ [][NextLife]_vars /\ WF_vars(NextLife)

\* ------------------------------------- one fetchAndSaveBatchWithRetry call
\* the ranges a caller passes: at most MaxBatchSize heights up to MaxHead
BatchRanges ==
  {b \in [from : 0..MaxHead, to : 0..MaxHead] :
     b.from <= b.to /\ b.to - b.from < MaxBatchSize}

\* fetchAndSaveBatchWithRetry(fromBlock, toBlock) called on its own, as the
\* unit tests call it
fetchAndSaveBatchWithRetryCall(b) ==
  /\ driver = "batch"
  /\ tasks = <<>>
  /\ tasks' = <<NewTask(b)>>
  /\ UNCHANGED <<storeVars, sbVars, gbVars, taskFrame, currentBlock, faulted>>

InitBatch ==
  /\ SaveBlocksIdle
  /\ GetBlockIdle
  /\ SyncIdle
  /\ driver = "batch"
  /\ config \in [startBlock : {0}, batchSize : {MaxBatchSize}, parallelBatches : {1},
                 blockDelay : {0}, enableReorgCheck : BOOLEAN,
                 maxRetries : 0..MaxBatchRetries]
  /\ store \in InitialStores
  /\ chainHead = MaxHead
  /\ fpc = "ready"
  /\ currentBlock = -1
  /\ isRunning = TRUE

NextBatch ==
  \/ \E b \in BatchRanges : fetchAndSaveBatchWithRetryCall(b)
  \/ \E t \in 1..Len(tasks), failed \in BOOLEAN, present \in SUBSET (0..MaxHead) :
       fetchAndSaveBatchFetched(t, failed, present)
  \/ \E t \in 1..Len(tasks), ok \in BOOLEAN : checkForReorgsLookup(t, ok)
  \/ \E t \in 1..Len(tasks), ok \in BOOLEAN : checkForReorgsDeleted(t, ok)
  \/ \E t \in 1..Len(tasks), ok \in BOOLEAN : fetchAndSaveBatchSaved(t, ok)
  \/ \E t \in 1..Len(tasks) : fetchAndSaveBatchWithRetryWake(t)

SpecBatch == InitBatch /\ [][NextBatch]_vars

(***************************************************************************)
(* Properties of the fetcher                                               *)
(***************************************************************************)
\* the heights the table holds
Heights(rows) == {r.number : r \in rows}

\* C4 (as stated): after initialize() and start() on an empty table, with
\* startBlock = s, chain height h >= s and no failing call, the backfill has
\* dispatched batches covering exactly s..h, the first one beginning at s, so
\* the table holds the h - s + 1 heights s..h when the tail loop is entered.
C4_ColdStartCoversStartHeight ==
  (/\ driver = "main"
   /\ coldStart
   /\ ~faulted
   /\ fpc = "tail_head"
   /\ ~polled
   /\ headAtStart >= config.startBlock)
  => /\ Heights(store) = config.startBlock..headAtStart
     /\ Cardinality(store) = headAtStart - config.startBlock + 1
     /\ started # <<>>
     /\ started[1].from = config.startBlock

\* the batch tasks that have been started and have not settled
InFlight == {k \in 1..Len(tasks) : ~Settled(tasks[k])}

\* C5: a rejected batch stops no other batch.  When syncHistoricalBlocks has
\* ended and stop() was never called, every batch of the partition has been
\* started, in order, each one has settled as fulfilled or rejected, and the
\* call has returned to its caller (it did not raise).
C5_FailureIsolation ==
  (syncPc = "done" /\ ~stopCalled)
  => /\ started = batches
     /\ processedBatches + Len(failedBatches) = Len(batches)
     /\ fpc \in {"tail_head", "tail_sleep", "returned"}

\* C5 witness: a finished sync of more than one chunk whose first batch was
\* rejected while the last batch, in a later chunk, was committed
C5_Witness ==
  /\ syncPc = "done"
  /\ ~stopCalled
  /\ Len(batches) > config.parallelBatches
  /\ Len(failedBatches) = 1
  /\ failedBatches[1].from = batches[1].from
  /\ processedBatches = Len(batches) - 1
  /\ batches[Len(batches)].to \in Heights(store)
  /\ currentBlock = batches[Len(batches)].to

C7_RetryBudget ==
  \A k \in 1..Len(tasks) :
    LET task == tasks[k]
        R == config.maxRetries
    IN /\ task.attempts <= R + 1
       /\ task.pc = "fulfilled" =>
            /\ task.outcome = Returned(Null)
            /\ task.retryCount = task.attempts - 1
       /\ task.pc = "rejected" =>
            /\ task.attempts = R + 1
            /\ task.retryCount = R + 1
            /\ task.outcome.kind = "raised"
            /\ task.outcome.error.attempt = R + 1
       /\ task.pc \in {"fetch", "check", "delete", "save"} =>
            task.retryCount = task.attempts - 1

\* C7 witness: with R = 3, a call is rejected after four attempts, the last
\* of which failed on the unique-number constraint
C7_Witness ==
  /\ driver = "batch"
  /\ config.maxRetries = 3
  /\ Len(tasks) = 1
  /\ tasks[1].pc = "rejected"
  /\ tasks[1].attempts = 4
  /\ tasks[1].outcome.error.src = "unique_violation"

\* the sleeps a call has made after k failed attempts: 2^1, ..., 2^k seconds
BackoffAfter(k) == [j \in 1..k |-> Pow2(j) * BackoffUnitMs]

\* C8: the sleep after the k-th failed attempt is 2^k * 1000 ms; there is
\* exactly one sleep between two consecutive attempts, none before the first
\* attempt and none after the last failed one.
C8_Backoff ==
  \A k \in 1..Len(tasks) :
    LET task == tasks[k]
    IN /\ task.sleeps = BackoffAfter(Len(task.sleeps))
       /\ Len(task.sleeps) = IF task.pc = "sleep" THEN task.attempts
                              ELSE task.attempts - 1
       /\ task.pc = "rejected" => Len(task.sleeps) = config.maxRetries

\* C8 witness: with R = 3 a call that failed four times slept 2000, 4000 and
\* 8000 ms and was rejected without a fourth sleep
C8_Witness ==
  /\ driver = "batch"
  /\ config.maxRetries = 3
  /\ Len(tasks) = 1
  /\ tasks[1].pc = "rejected"
  /\ tasks[1].sleeps = <<2000, 4000, 8000>>


\* the fetched blocks of an attempt whose height is not 0 and whose row in the
\* table the attempt started from carries another hash
Diverging(a) ==
  {i \in 1..Len(a.fetched) :
     LET old == getStoredBlock(a.before, a.fetched[i].number)
     IN /\ a.fetched[i].number > 0
        /\ old # NoRow
        /\ BytesToHex(old.hash) # a.fetched[i].hash}

\* the rows a saveBlocks of these blocks writes
RowsOf(blocks) == {transformBlock(blocks[i]) : i \in 1..Len(blocks)}

\* C17: with enableReorgCheck on, after a batch attempt that fetched a block
\* (n, H2), n > 0, while the table held (n, H1) with H1 # H2, and whose
\* saveBlocks succeeded, the table holds (n, H2), holds no row with hash H1,
\* and the rows with number >= n it holds are rows this batch wrote.
C17_ReorgRepair ==
  \A k \in 1..Len(tasks) :
    LET a == tasks[k].attempt
    IN (config.enableReorgCheck /\ tasks[k].pc = "fulfilled") =>
         \A i \in Diverging(a) :
           LET b == a.fetched[i]
               old == getStoredBlock(a.before, b.number)
           IN /\ transformBlock(b) \in store
              /\ \A r \in store : r.hash # old.hash
              /\ \A r \in store : r.number >= b.number => r \in RowsOf(a.fetched)

\* C17: a fulfilled batch of one block whose height held a stale row, with a
\* stale row above it, in the table the attempt started from
C17_Witness ==
  /\ config.enableReorgCheck
  /\ Len(tasks) = 1
  /\ tasks[1].pc = "fulfilled"
  /\ Len(tasks[1].attempt.fetched) = 1
  /\ Diverging(tasks[1].attempt) = {1}
  /\ \E r \in tasks[1].attempt.before : r.number > tasks[1].attempt.fetched[1].number
  /\ transformBlock(tasks[1].attempt.fetched[1]) \in store

\* the index of the first diverging block of an attempt, 0 when there is none
FirstDiverging(a) ==
  IF Diverging(a) = {} THEN 0
  ELSE CHOOSE i \in Diverging(a) : \A j \in Diverging(a) : i <= j

\* the heights checkForReorgs looks at: the fetched blocks but the genesis
\* block, in the order fetched, up to index i
RECURSIVE ScanOrder(_, _, _)
ScanOrder(blocks, i, last) ==
  IF i > last \/ i > Len(blocks) THEN <<>>
  ELSE (IF blocks[i].number = 0 THEN <<>> ELSE <<blocks[i].number>>)
       \o ScanOrder(blocks, i + 1, last)

\* C18: checkForReorgs looks the fetched blocks up in ascending order; at the
\* first block b, b.number # 0, whose stored row has another hash it calls
\* deleteBlocksFrom(b.number) once, sets currentBlock to b.number - 1 and
\* looks at no later block: an attempt deletes at most once.
C18_ReorgDetectionStep ==
  \A k \in 1..Len(tasks) :
    LET task == tasks[k]
        a == task.attempt
        f == FirstDiverging(a)
    IN /\ Len(a.deletes) <= 1
       /\ \E last \in 0..Len(a.fetched) : a.lookups = ScanOrder(a.fetched, 1, last)
       /\ f # 0 => a.lookups \in {ScanOrder(a.fetched, 1, last) : last \in 0..f}
       /\ a.deletes # <<>> =>
            /\ f # 0
            /\ a.deletes = <<a.fetched[f].number>>
            /\ a.lookups = ScanOrder(a.fetched, 1, f)
            /\ currentBlock = a.fetched[f].number - 1
            /\ task.pc \notin {"check", "delete"}
       /\ (config.enableReorgCheck /\ f # 0 /\ task.pc \in {"save", "fulfilled"})
            => a.deletes # <<>>
       /\ (config.enableReorgCheck /\ f = 0 /\ task.pc \in {"save", "fulfilled"})
            => a.lookups = ScanOrder(a.fetched, 1, Len(a.fetched))

\* C18: an attempt that found a matching row first, a diverging one next,
\* deleted from it and went on to saveBlocks
C18_Witness ==
  /\ Len(tasks) = 1
  /\ tasks[1].pc = "save"
  /\ Len(tasks[1].attempt.fetched) = 2
  /\ Len(tasks[1].attempt.lookups) = 2
  /\ tasks[1].attempt.deletes = <<tasks[1].attempt.fetched[2].number>>
  /\ currentBlock = tasks[1].attempt.fetched[2].number - 1


\* the batches of the running syncHistoricalBlocks call whose outcome the
\* results.forEach has recorded
Recorded == processedBatches + Len(failedBatches)

C20_StopAwaitsChunk == stopCalled => InFlight = {}

\* C22: a start() call made while the fetcher is running returns at once: it
\* does not read the chain height, starts no batch and leaves currentBlock and
\* the running flag as they are.
C22_StartNotReentrant ==
  [][(startCalls' # startCalls /\ isRunning) =>
       UNCHANGED <<isRunning, currentBlock, fpc, headAtStart, polled, syncBy, syncPc,
                   batches, chunkAt, tasks, started, processedBatches, failedBatches,
                   store>>]_vars

\* C22: the second start() call came while the first one was backfilling
C22_Witness ==
  /\ startCalls = 2
  /\ isRunning
  /\ ~stopCalled
  /\ ~faulted
  /\ syncPc = "chunk"

\* C23: an iteration of the tail loop never ends the loop: after the chain
\* height was read the loop is either backfilling or asleep; an iteration whose
\* read failed starts no batch and leaves currentBlock and the table alone; and
\* after the sleep the loop polls again as long as isRunning is set.
C23_TailLoopSurvivesErrors ==
  [][/\ (fpc = "tail_head" /\ fpc' # fpc) => fpc' \in {"tail_sleep", "sync"}
     /\ (fpc = "tail_head" /\ fpc' # fpc /\ syncBy' = "none") =>
          /\ fpc' = "tail_sleep"
          /\ tasks' = <<>>
          /\ UNCHANGED <<currentBlock, store, isRunning>>
     /\ (fpc = "tail_sleep" /\ fpc' # fpc /\ isRunning) => fpc' = "tail_head"]_vars

\* C23: the tail loop is asleep after an iteration whose getBlockNumber failed:
\* the chain height, unchanged since start() read it, is above currentBlock,
\* yet no backfill was started
C23_Witness ==
  /\ fpc = "tail_sleep"
  /\ isRunning
  /\ polled
  /\ syncBy = "none"
  /\ chainHead = headAtStart
  /\ chainHead > currentBlock

\* C24: the tail iteration that has read the chain height h calls
\* syncHistoricalBlocks exactly when h > currentBlock, over [currentBlock + 1, h];
\* when h <= currentBlock it starts no batch and leaves the table alone; and a
\* tail backfill that ends with every batch started and none failed leaves
\* currentBlock at h or above, so that the next iteration starts above h.
C24_TailSyncRange ==
  [][/\ (fpc = "tail_head" /\ fpc' # fpc) =>
          /\ syncBy' = "tail" =>
               /\ chainHead > currentBlock
               /\ batches' = Partition(currentBlock + 1, chainHead, config.batchSize)
               /\ batches'[1].from = currentBlock + 1
               /\ batches'[Len(batches')].to = chainHead
               /\ \A r \in store : r.number <= currentBlock
          /\ chainHead <= currentBlock =>
               /\ syncBy' = "none"
               /\ tasks' = <<>>
               /\ store' = store
          /\ (chainHead > currentBlock /\ ~faulted') => syncBy' = "tail"
     /\ (syncBy' = "tail" /\ syncPc # "done" /\ syncPc' = "done"
           /\ failedBatches' = <<>> /\ started' = batches') =>
          currentBlock' >= batches'[Len(batches')].to]_vars

\* C24: a tail backfill over the single batch [chainHead..chainHead] has ended
\* without a failed batch and the block is stored
C24_Witness ==
  /\ syncBy = "tail"
  /\ syncPc = "done"
  /\ failedBatches = <<>>
  /\ batches = <<[from |-> chainHead, to |-> chainHead]>>
  /\ started = batches
  /\ currentBlock = chainHead
  /\ chainHead \in Heights(store)

\* C25 (as stated): once the endpoint and the database have stopped failing
\* and the chain height stays at h, the running indexer reaches a state in
\* which the highest block number of the table is h.
C25_Reconvergence ==
  (calm /\ isRunning) ~> (getLastBlockNumber(store) = chainHead)

\* a height between the configured start height and the highest stored block
\* is missing from the table
HasHole ==
  \E n \in config.startBlock..getLastBlockNumber(store) : n \notin Heights(store)

\* C26 (as stated): when the table has a hole below its highest block (a batch
\* failed while a higher one was committed), a run of initialize() and start()
\* on that table, with the endpoint and the database working, fetches the
\* missing heights, so that eventually every height from the start height to
\* the chain height is stored.
C26_HolesRepaired ==
  (calm /\ isRunning /\ HasHole) ~>
    (\A n \in config.startBlock..chainHead : n \in Heights(store))

\* C27 (as stated): after initialize(), currentBlock is the highest stored
\* block number when the table is not empty (0 included), and startBlock - 1
\* when the table is empty.
C27_CursorInitialisation ==
  fpc = "initialized" =>
    currentBlock = (IF store = {} THEN config.startBlock - 1
                    ELSE getLastBlockNumber(store))

\* the heights of a batch
BatchHeights(b) == b.from..b.to

\* C28: syncHistoricalBlocks(from, to), from <= to, splits [from, to] into
\* batches that are non-empty, ascending, contiguous and disjoint, cover every
\* height of [from, to] once, have batchSize heights each except possibly the
\* last, start at from and end at to; and the batches are started in that order.
C28_Partition ==
  [][(syncPc = "none" /\ syncPc' # "none") =>
       LET bs == batches'
           n == Len(bs)
       IN /\ n >= 1
          /\ bs[1].from = currentBlock + 1
          /\ bs[n].to = chainHead
          /\ \A k \in 1..n : bs[k].from <= bs[k].to
          /\ \A k \in 1..(n - 1) :
               /\ bs[k].to - bs[k].from + 1 = config.batchSize
               /\ bs[k + 1].from = bs[k].to + 1
          /\ bs[n].to - bs[n].from + 1 <= config.batchSize
          /\ \A j \in 1..n, k \in 1..n :
               j # k => BatchHeights(bs[j]) \cap BatchHeights(bs[k]) = {}
          /\ UNION {BatchHeights(bs[k]) : k \in 1..n} = (currentBlock + 1)..chainHead
          /\ batches' = Partition(currentBlock + 1, chainHead, config.batchSize)]_vars
  /\ [](started = SubSeq(batches, 1, Len(started)))

\* C28: a call over three heights with batchSize 2 has started both of its
\* batches, the full one first and the shorter one last
C28_Witness ==
  /\ Len(batches) = 2
  /\ started = batches
  /\ config.batchSize = 2
  /\ batches[1].to - batches[1].from = 1
  /\ batches[2].to = batches[2].from

\* the `to` of the fulfilled batches of a chunk
FulfilledTo(ts) == {ts[k].to : k \in {j \in 1..Len(ts) : ts[j].pc = "fulfilled"}}

\* the largest number of a non-empty set
MaxOf(S) == CHOOSE n \in S : \A m \in S : m <= n

\* C29: the step that processes the outcomes of a chunk leaves currentBlock at
\* the maximum of its value and the `to` of the fulfilled batches, so a chunk
\* whose batches were all rejected leaves it unchanged; and currentBlock only
\* ever decreases in the rewind of reorg detection, to one below the height
\* deleted from.
C29_CursorAdvance ==
  [][/\ Recorded' # Recorded =>
          /\ currentBlock' = MaxOf({currentBlock} \cup FulfilledTo(tasks))
          /\ FulfilledTo(tasks) = {} => currentBlock' = currentBlock
          /\ currentBlock' >= currentBlock
     /\ currentBlock' < currentBlock =>
          \E k \in 1..Len(tasks) :
            /\ tasks[k].pc = "delete"
            /\ tasks'[k].attempt.deletes = <<currentBlock' + 1>>]_vars

\* C29: a chunk of two batches has been processed, the lower one fulfilled and
\* the higher one rejected; currentBlock is the `to` of the fulfilled one
C29_Witness ==
  /\ syncPc = "done"
  /\ Len(started) = 2
  /\ processedBatches = 1
  /\ Len(failedBatches) = 1
  /\ failedBatches[1].to = started[2].to
  /\ currentBlock = started[1].to

\* C30: a further chunk is started only in a step before which every batch of
\* the chunk before it had settled and with which all their outcomes are
\* recorded (counted as processed or pushed on the failed list, currentBlock
\* advanced); the batches in flight are always the last batches started.
C30_ChunkBarrier ==
  [][(Len(started') > Len(started) /\ Len(started) > 0) =>
       /\ \A k \in 1..Len(tasks) : Settled(tasks[k])
       /\ Recorded' = Len(started)
       /\ Len(failedBatches') = Len(failedBatches) + Len(FailedOf(tasks, 1))
       /\ currentBlock' = MaxOf({currentBlock} \cup FulfilledTo(tasks))]_vars
  /\ [](syncPc = "chunk" =>
          /\ Len(tasks) <= config.parallelBatches
          /\ \A k \in 1..Len(tasks) :
               /\ tasks[k].from = started[Len(started) - Len(tasks) + k].from
               /\ tasks[k].to = started[Len(started) - Len(tasks) + k].to)

\* C30: the second chunk is in flight after a first chunk of two batches, one
\* fulfilled and one rejected, both recorded
C30_Witness ==
  /\ syncPc = "chunk"
  /\ config.parallelBatches = 2
  /\ Len(started) > 2
  /\ processedBatches = 1
  /\ Len(failedBatches) = 1
  /\ \E k \in 1..Len(tasks) : ~Settled(tasks[k])

\* the ranges on the failed list
FailedRanges == {[from |-> failedBatches[k].from, to |-> failedBatches[k].to] :
                   k \in 1..Len(failedBatches)}

\* C31: the step that processes a chunk counts each of its batches once, as
\* processed when fulfilled and on the failed list when rejected; so when
\* syncHistoricalBlocks has finished with the running flag never cleared,
\* successfulBatches + failedBatches is the number of batches, all of them
\* were started, and every failed range is on the failed list exactly once.
C31_SummaryAccounting ==
  [][Recorded' # Recorded =>
       /\ processedBatches' - processedBatches
            = Cardinality({k \in 1..Len(tasks) : tasks[k].pc = "fulfilled"})
       /\ failedBatches' = failedBatches \o FailedOf(tasks, 1)
       /\ Len(FailedOf(tasks, 1))
            = Cardinality({k \in 1..Len(tasks) : tasks[k].pc = "rejected"})
       /\ Recorded' - Recorded = Len(tasks)]_vars
  /\ [](syncPc = "done" =>
          /\ started = batches
          /\ Recorded = Len(batches)
          /\ Cardinality(FailedRanges) = Len(failedBatches)
          /\ FailedRanges \subseteq {batches[k] : k \in 1..Len(batches)})

\* C31: a call over four batches has finished with one batch on the failed
\* list and the three others counted as processed
C31_Witness ==
  /\ syncPc = "done"
  /\ Len(batches) = 4
  /\ Len(failedBatches) = 1
  /\ processedBatches = 3

\* C32 (as stated): whenever no batch is in flight and the table is not empty,
\* currentBlock is at most the highest stored block number.
C32_CursorNotAheadOfStore ==
  (fpc # "new" /\ InFlight = {} /\ store # {}) =>
    currentBlock <= getLastBlockNumber(store)

\* C33: a Database.transaction call holds one pool client from getClient()
\* until it returns or throws and none afterwards, on every exit path: commit,
\* failing BEGIN, failing callback, failing COMMIT, failing ROLLBACK.  After
\* any sequence of saveBlocks calls no client is held.
C33_ConnectionRelease ==
  /\ held \in {0, 1}
  /\ sbPc \in {"idle", "connect", "done"} => held = 0
  /\ sbPc \in {"begin", "loop", "commit", "rollback"} => held = 1

\* C33: a saveBlocks call has ended with the error of a failed ROLLBACK, after
\* a failed COMMIT, and the client is back in the pool
C33_Witness ==
  /\ sbPc = "done"
  /\ sbOutcome = Raised("rollback")
  /\ sbErr = "commit"
  /\ held = 0

\* C34: while checkForReorgs runs over fetched blocks none of which diverges
\* (each has number 0, no stored row, or a stored row with its own hash), no
\* step of it deletes a row or changes currentBlock, the attempt records no
\* deleteBlocksFrom call, and the genesis block is never looked up.
C34_NoDivergenceNoEffect ==
  /\ [][\A k \in 1..Len(tasks) :
          (/\ tasks[k].pc \in {"check", "delete"}
           /\ Diverging(tasks[k].attempt) = {}
           /\ k <= Len(tasks')
           /\ tasks'[k] # tasks[k])
            => /\ store' = store
               /\ currentBlock' = currentBlock
               /\ tasks'[k].pc # "delete"
               /\ tasks'[k].attempt.deletes = <<>>]_vars
  /\ [](\A k \in 1..Len(tasks) :
          /\ \A j \in 1..Len(tasks[k].attempt.lookups) : tasks[k].attempt.lookups[j] # 0
          /\ Diverging(tasks[k].attempt) = {} => tasks[k].attempt.deletes = <<>>)

\* C34: the check went over the genesis block and a block whose stored row
\* has the same hash: one lookup, no delete, the table as it was, and
\* saveBlocks is next
C34_Witness ==
  /\ config.enableReorgCheck
  /\ Len(tasks) = 1
  /\ tasks[1].pc = "save"
  /\ Len(tasks[1].attempt.fetched) = 2
  /\ tasks[1].attempt.fetched[1].number = 0
  /\ transformBlock(tasks[1].attempt.fetched[2]) \in tasks[1].attempt.before
  /\ tasks[1].attempt.lookups = <<1>>
  /\ tasks[1].attempt.deletes = <<>>
  /\ store = tasks[1].attempt.before
  /\ currentBlock = -1

\* C35 (as stated): with enableReorgCheck on and parallelBatches > 1, when all
\* batches of a chunk have settled and their outcomes are about to be
\* processed, every row a fulfilled batch of the chunk committed is in the
\* table: no deleteBlocksFrom of a sibling batch has removed it.
C35_SiblingRowsSurvive ==
  (/\ config.enableReorgCheck
   /\ config.parallelBatches > 1
   /\ tasks # <<>>
   /\ InFlight = {})
    => \A k \in 1..Len(tasks) :
         tasks[k].pc = "fulfilled" => RowsOf(tasks[k].attempt.fetched) \subseteq store

\* C36: checkForReorgs deletes outside the transaction of saveBlocks.  When an
\* attempt of a batch called deleteBlocksFrom(n) and its saveBlocks then
\* failed, at the end of the attempt the table is the one the attempt started
\* from without its rows of number >= n, and currentBlock is n - 1.  No later
\* step but a successful saveBlocks adds a row and no step but a
\* deleteBlocksFrom of checkForReorgs moves currentBlock, so a batch whose
\* remaining attempts fail too is rejected with none of these rows back.
C36_DeleteSurvivesFailedSave ==
  /\ [](\A k \in 1..Len(tasks) :
          LET a == tasks[k].attempt
          IN (a.deletes # <<>> /\ tasks[k].pc \in {"sleep", "rejected"}) =>
               /\ store = {r \in a.before : r.number < a.deletes[1]}
               /\ currentBlock = a.deletes[1] - 1)
  /\ [][/\ currentBlock' # currentBlock => \E k \in 1..Len(tasks) : tasks[k].pc = "delete"
        /\ (\A k \in 1..Len(tasks) : k <= Len(tasks') => tasks'[k].pc # "fulfilled")
             => store' \subseteq store]_vars

\* C36: a batch rejected after two attempts: the first one deleted from height
\* 1 (only that call moves currentBlock from -1 to 0) and failed in
\* saveBlocks, the second one found nothing to delete and failed on a database
\* error too, and the table holds no row of height 1 or above
C36_Witness ==
  /\ config.enableReorgCheck
  /\ config.maxRetries = 1
  /\ Len(tasks) = 1
  /\ tasks[1].pc = "rejected"
  /\ tasks[1].attempts = 2
  /\ tasks[1].outcome.error.src = "db"
  /\ tasks[1].attempt.fetched # <<>>
  /\ tasks[1].attempt.deletes = <<>>
  /\ currentBlock = 0
  /\ store = tasks[1].attempt.before
  /\ \A r \in store : r.number < 1

\* ----------------------------------------------- start() again after stop()
\* the rest of the state a start() call made after stop() leaves alone, up to
\* its first await and while it waits
restartFrame ==
  <<storeVars, sbVars, rpcRetries, gbScript, gbPc, gbNumber, gbAttempt, gbAnswers,
    gbSleeps, gbLastError, gbOutcome, rangeCall, parallelCall, conn, proc,
    config, driver, chainHead, fpc, currentBlock, stopCalled, syncBy, syncPc, batches,
    chunkAt, processedBatches, failedBatches, tasks, started, headAtStart, polled,
    faulted, coldStart, startCalls, calm>>

\* BlockFetcher.start called once more after stop(), up to its
\* `await rpcClient.getBlockNumber()`: stop() has set isRunning = false, so
\* the guard lets the call through and it sets isRunning = true, wherever the
\* earlier call is (in a chunk, in the poll sleep, or gone)
startAfterStop ==
  /\ driver = "main"
  /\ startCalls > 0
  /\ stopCalled
  /\ laterStart = "none"
  /\ ~alreadyRunning(isRunning)
  /\ isRunning' = TRUE
  /\ laterStart' = "start_head"
  /\ UNCHANGED restartFrame

\* the later start(): the chain height arrives and the call goes into its
\* backfill and then its own while (this.isRunning) loop, where it stays as
\* long as isRunning is true (its errors are caught by Promise.allSettled and
\* by the catch of the tail loop); or getBlockNumber fails: isRunning = false
\* and the error is rethrown.  The blocks the later call writes are left out:
\* the loop conditions of both calls read isRunning only.
laterStartHead(ok) ==
  /\ laterStart = "start_head"
  /\ laterStart' = IF ok THEN "loop" ELSE "failed"
  /\ isRunning' = IF ok THEN isRunning ELSE FALSE
  /\ UNCHANGED restartFrame

\* the configurations SpecRestart explores
RestartConfigs == {c \in LifeConfigs : c.startBlock = 0 /\ ~c.enableReorgCheck}

InitRestart ==
  /\ SaveBlocksIdle
  /\ GetBlockIdle
  /\ SyncIdle
  /\ driver = "main"
  /\ config \in RestartConfigs
  /\ store = {}
  /\ chainHead \in 0..MaxHead
  /\ fpc = "new"
  /\ currentBlock = NoNumber
  /\ isRunning = FALSE

NextRestart ==
  \/ \E ok \in BOOLEAN : initialize(ok)
  \/ start
  \/ \E ok \in BOOLEAN : startHead(ok)
  \/ \E ok \in BOOLEAN : startRealTimeSyncHead(ok)
  \/ startRealTimeSyncWake
  \/ \E t \in 1..Len(tasks), failed \in BOOLEAN, present \in SUBSET (0..MaxHead) :
       fetchAndSaveBatchFetched(t, failed, present)
  \/ \E t \in 1..Len(tasks), ok \in BOOLEAN : fetchAndSaveBatchSaved(t, ok)
  \/ syncChunkSettled
  \/ syncDelayOver
  \/ stop
  \/ chainAdvance
  \/ startAfterStop
  \/ \E ok \in BOOLEAN : laterStartHead(ok)

SpecRestart == InitRestart /\ [][NextRestart]_vars

\* C37 (as stated): over every sequence of start() and stop() calls at most
\* one backfill/tail loop is active: while a start() call made after stop()
\* is running, the loop of the earlier call does not go round again, neither
\* its while (this.isRunning) after the poll sleep nor its chunk loop.
C37_AtMostOneSyncLoop ==
  [][(laterStart \in {"start_head", "loop"}) =>
       (/\ ~(fpc = "tail_sleep" /\ fpc' = "tail_head")
        /\ ~(syncPc \in {"chunk", "delay"} /\ syncPc' = "chunk" /\ chunkAt < chunkAt'))]_vars

\* C38 (as stated): for every configured retries value R >= 0 a finished
\* getBlock(n) has made at least one call to the endpoint and has returned a
\* block, returned null, or raised the transport error of its last call.
C38_GetBlockTotal ==
  gbPc = "done" =>
    /\ Len(gbAnswers) >= 1
    /\ \/ gbOutcome = Returned(RpcBlock(gbNumber, 1, TRUE))
       \/ gbOutcome = Returned(Null)
       \/ /\ gbAnswers[Len(gbAnswers)] \in RpcErrors
          /\ gbOutcome = Raised(gbAnswers[Len(gbAnswers)])

\* the fetched blocks of an attempt, of any height, whose row in the table the
\* attempt started from carries another hash
Conflicting(a) ==
  {i \in 1..Len(a.fetched) :
     LET old == getStoredBlock(a.before, a.fetched[i].number)
     IN old # NoRow /\ BytesToHex(old.hash) # a.fetched[i].hash}

\* C39: with enableReorgCheck off, when the table holds a row at height n with
\* another hash than the block fetched at n, saveBlocks of the batch raises on
\* the unique constraint of `number` and leaves the table as it was; the
\* attempt never fulfils the batch, no step of a batch that is not fulfilled
\* changes the table, so every attempt meets the same row and after
\* maxRetries + 1 attempts the batch is rejected with the table unchanged.
C39_HeightConflictWithoutReorgCheck ==
  /\ [](~config.enableReorgCheck =>
          \A k \in 1..Len(tasks) :
            LET task == tasks[k]
                a == task.attempt
            IN Conflicting(a) # {} =>
                 /\ task.pc # "fulfilled"
                 /\ store = a.before
                 /\ task.pc = "save" =>
                      saveBlocksAtomic(store, task.blocks, FALSE)
                        = [kind |-> "raised", error |-> "unique_violation", rows |-> store]
                 /\ task.pc = "rejected" =>
                      /\ task.attempts = config.maxRetries + 1
                      /\ task.outcome.error.src \in {"unique_violation", "db"})
  /\ [][(~config.enableReorgCheck /\ store' # store) =>
          \E k \in 1..Len(tasks) : tasks[k].pc = "save" /\ tasks'[k].pc = "fulfilled"]_vars

\* C39: a batch rejected on the unique constraint at its second and last
\* attempt, the stale row still in the table
C39_Witness ==
  /\ ~config.enableReorgCheck
  /\ config.maxRetries = 1
  /\ Len(tasks) = 1
  /\ tasks[1].pc = "rejected"
  /\ tasks[1].attempts = 2
  /\ tasks[1].outcome.error.src = "unique_violation"
  /\ Conflicting(tasks[1].attempt) # {}
  /\ store = tasks[1].attempt.before
  /\ store # {}

\* C40: every batch of a backfill that start() or the tail loop begins covers
\* only heights above the value currentBlock has when the range is computed;
\* so every batch task of the backfill, and every height checkForReorgs looks
\* up, lies above that cursor, no task reaches deleteBlocksFrom, and a row at
\* or below the cursor stays in the table whatever hash the chain has there.
C40_OnlyAboveCursor ==
  /\ [][(fpc \in {"start_head", "tail_head"} /\ fpc' = "sync") =>
          /\ syncBy' \in {"start", "tail"}
          /\ tasks' # <<>>
          /\ \A i \in 1..Len(batches') : batches'[i].from > currentBlock
          /\ \A k \in 1..Len(tasks') : tasks'[k].from > currentBlock]_vars
  /\ []((fpc = "sync" /\ syncBy \in {"start", "tail"}) =>
          \A k \in 1..Len(tasks) :
            /\ tasks[k].from >= batches[1].from
            /\ tasks[k].pc # "delete"
            /\ tasks[k].attempt.deletes = <<>>
            /\ \A j \in 1..Len(tasks[k].attempt.lookups) :
                 tasks[k].attempt.lookups[j] >= batches[1].from)
  /\ [][\A r \in store : r \in store']_vars

\* C40: with the reorg check on, a batch of a backfill has looked its blocks
\* up and found nothing to delete while the table holds, below the first
\* height of the backfill, a row whose hash is not the one the chain has there
C40_Witness ==
  /\ config.enableReorgCheck
  /\ syncBy \in {"start", "tail"}
  /\ batches # <<>>
  /\ \E k \in 1..Len(tasks) :
       /\ tasks[k].pc \in {"save", "fulfilled"}
       /\ tasks[k].attempt.lookups # <<>>
  /\ \E r \in store :
       /\ r.number < batches[1].from
       /\ r # transformBlock(ChainBlock(r.number))
====
